---- MODULE Spec2Model ----
(***************************************************************************)
(* Causelist scraper of fasi-law-chamber: the session transport, the HTML  *)
(* parsers and the HTTP endpoints of src/proxy.py and of the two           *)
(* stand-alone scraper applications, as state machines.                    *)
(*                                                                         *)
(* Text is a TLA+ string; Len, \o and SubSeq act on strings as on          *)
(* sequences of characters.  An HTML document is a tree of records, one    *)
(* per element or text node, in document order.                            *)
(***************************************************************************)
EXTENDS Integers, Sequences, FiniteSets, TLC

\* Python's None where a string is expected, and where a node or mapping is
None == "None"

NoNode == [tag |-> "None"]

(***************************************************************************)
(* Python string operations.                                               *)
(***************************************************************************)
UpperChars == "ABCDEFGHIJKLMNOPQRSTUVWXYZ"

LowerChars == "abcdefghijklmnopqrstuvwxyz"

DigitChars == "0123456789"

\* s[i:i+1], counting from 1: the empty string beyond the end
CharAt(s, i) == IF i \in 1..Len(s) THEN SubSeq(s, i, i) ELSE ""

\* s[i-1:j], counting from 1: slices stop at the end of the string
Slice(s, i, j) == SubSeq(s, i, IF j > Len(s) THEN Len(s) ELSE j)

IsWhite(c) == c \in {" ", "\n", "\t"}

IsDigit(c) == \E i \in 1..Len(DigitChars) : CharAt(DigitChars, i) = c

\* c.lower() of one character
LowerChar(c) ==
    IF \E i \in 1..Len(UpperChars) : CharAt(UpperChars, i) = c
    THEN CharAt(LowerChars, CHOOSE i \in 1..Len(UpperChars) : CharAt(UpperChars, i) = c)
    ELSE c

RECURSIVE Lower(_)
\* s.lower()
Lower(s) == IF s = "" THEN "" ELSE LowerChar(CharAt(s, 1)) \o Lower(SubSeq(s, 2, Len(s)))

\* pat in s
Contains(s, pat) ==
    \E i \in 1..(Len(s) - Len(pat) + 1) : SubSeq(s, i, i + Len(pat) - 1) = pat

RECURSIVE LStrip(_)
LStrip(s) == IF s # "" /\ IsWhite(CharAt(s, 1)) THEN LStrip(SubSeq(s, 2, Len(s))) ELSE s

RECURSIVE RStrip(_)
RStrip(s) ==
    IF s # "" /\ IsWhite(CharAt(s, Len(s))) THEN RStrip(SubSeq(s, 1, Len(s) - 1)) ELSE s

\* s.strip()
Strip(s) == RStrip(LStrip(s))

\* s.isdigit()
IsDigitStr(s) == s # "" /\ \A i \in 1..Len(s) : IsDigit(CharAt(s, i))

RECURSIVE Join(_, _)
\* sep.join(parts)
Join(sep, parts) ==
    IF parts = <<>> THEN ""
    ELSE IF Len(parts) = 1 THEN parts[1]
    ELSE parts[1] \o sep \o Join(sep, Tail(parts))

RECURSIVE SplitAcc(_, _, _)
SplitAcc(s, sep, cur) ==
    IF s = "" THEN <<cur>>
    ELSE IF CharAt(s, 1) = sep THEN <<cur>> \o SplitAcc(SubSeq(s, 2, Len(s)), sep, "")
    ELSE SplitAcc(SubSeq(s, 2, Len(s)), sep, cur \o CharAt(s, 1))

\* s.split(sep) for a one-character separator
Split(s, sep) == SplitAcc(s, sep, "")

RECURSIVE MapStrip(_)
MapStrip(parts) ==
    IF parts = <<>> THEN <<>> ELSE <<Strip(Head(parts))>> \o MapStrip(Tail(parts))

NonEmptyStr(s) == s # ""

DigitVal(c) == (CHOOSE i \in 1..Len(DigitChars) : CharAt(DigitChars, i) = c) - 1

RECURSIVE ToIntAcc(_, _)
ToIntAcc(s, acc) ==
    IF s = "" THEN acc ELSE ToIntAcc(SubSeq(s, 2, Len(s)), acc * 10 + DigitVal(CharAt(s, 1)))

\* int(s) of a string of digits
ToInt(s) == ToIntAcc(s, 0)

(***************************************************************************)
(* HTML trees and the BeautifulSoup operations the parsers use.            *)
(***************************************************************************)
Txt(s) ==
    [tag |-> "#text", id |-> "", cls |-> "", style |-> "", dcase |-> FALSE,
     text |-> s, kids |-> <<>>]

El(tag, kids) ==
    [tag |-> tag, id |-> "", cls |-> "", style |-> "", dcase |-> FALSE,
     text |-> "", kids |-> kids]

ElId(tag, id, kids) == [El(tag, kids) EXCEPT !.id = id]

ElStyle(tag, style, kids) == [El(tag, kids) EXCEPT !.style = style]

ElClass(tag, cls, kids) == [El(tag, kids) EXCEPT !.cls = cls]

ElCase(tag, kids) == [El(tag, kids) EXCEPT !.dcase = TRUE]

RECURSIVE Descendants(_)
RECURSIVE DescSeq(_)
\* node.descendants: every node below n, in document order
Descendants(n) == DescSeq(n.kids)

DescSeq(kids) ==
    IF kids = <<>> THEN <<>>
    ELSE <<Head(kids)>> \o Descendants(Head(kids)) \o DescSeq(Tail(kids))

IsTag(n, tag) == n.tag = tag

\* node.find_all(tag)
find_all(n, tag) == SelectSeq(Descendants(n), LAMBDA d : d.tag = tag)

\* node.find_all([tag1, tag2])
find_all_in(n, tags) == SelectSeq(Descendants(n), LAMBDA d : d.tag \in tags)

\* the first element of a result list, or None
FirstOrNone(s) == IF s = <<>> THEN NoNode ELSE Head(s)

StringsOf(n) == SelectSeq(Descendants(n), LAMBDA d : d.tag = "#text")

RECURSIVE TextsOf(_)
TextsOf(nodes) == IF nodes = <<>> THEN <<>> ELSE <<Head(nodes).text>> \o TextsOf(Tail(nodes))

\* node.get_text(separator=sep, strip=True)
get_text_strip(n, sep) ==
    Join(sep, SelectSeq(MapStrip(TextsOf(StringsOf(n))), NonEmptyStr))

\* node.get_text()
get_text(n) == Join("", TextsOf(StringsOf(n)))

\* tag.string: the text of a tag with exactly one child that is (or has) a string
RECURSIVE StringOf(_)
StringOf(n) ==
    IF n.tag = "#text" THEN n.text
    ELSE IF Len(n.kids) = 1 THEN StringOf(n.kids[1])
    ELSE None

\* element.find_previous(tag) for the element at position i of the document order
find_previous(all, i, tag) ==
    IF \E j \in 1..(i - 1) : all[j].tag = tag
    THEN all[CHOOSE j \in 1..(i - 1) :
                 /\ all[j].tag = tag
                 /\ \A k \in (j + 1)..(i - 1) : all[k].tag # tag]
    ELSE NoNode

(***************************************************************************)
(* TSHCScraper._parse_html, the dataTable parser (src/proxy.py; the same   *)
(* code is in src/tshc-causelist-app-final/app.py).                        *)
(***************************************************************************)
RECURSIVE SpanWhite(_, _)
\* the position after the longest run of whitespace from i on (\s*)
SpanWhite(s, i) == IF i <= Len(s) /\ IsWhite(CharAt(s, i)) THEN SpanWhite(s, i + 1) ELSE i

RECURSIVE SpanDigits(_, _)
\* the position after the longest run of digits from i on (\d*)
SpanDigits(s, i) == IF i <= Len(s) /\ IsDigit(CharAt(s, i)) THEN SpanDigits(s, i + 1) ELSE i

TotalPrefix == "TOTAL CASES FOR"

\* re.search(r'TOTAL CASES FOR\s+\d+\s*=\s*(\d+)', text) anchored at i:
\* <<matched, group 1>>
TotalMatchAt(text, i) ==
    LET p0 == i + Len(TotalPrefix)
        p1 == SpanWhite(text, p0)
        p2 == SpanDigits(text, p1)
        p3 == SpanWhite(text, p2)
        p4 == SpanWhite(text, p3 + 1)
        p5 == SpanDigits(text, p4)
    IN  IF /\ Slice(text, i, p0 - 1) = TotalPrefix
           /\ p1 > p0
           /\ p2 > p1
           /\ CharAt(text, p3) = "="
           /\ p5 > p4
        THEN <<TRUE, Slice(text, p4, p5 - 1)>>
        ELSE <<FALSE, "">>

\* the positions where the pattern matches
TotalMatches(text) ==
    {i \in 1..Len(text) : CharAt(text, i) = "T" /\ TotalMatchAt(text, i)[1]}

\* total_cases: 0, or int(match.group(1)) of the leftmost match
TotalCases(text) ==
    LET at == TotalMatches(text)
    IN  IF at = {} THEN 0
        ELSE ToInt(TotalMatchAt(text, CHOOSE i \in at : \A j \in at : i <= j)[2])

CourtMarker == "COURT NO."

JudgeMarker == "THE HONOURABLE"

StageStyle == "color:#c90d1f"

DistrictStyle == "color:#1e74cf"

\* find('div', string=re.compile(marker))
FindDivString(n, marker) ==
    FirstOrNone(SelectSeq(Descendants(n),
        LAMBDA d : d.tag = "div" /\ StringOf(d) # None /\ Contains(StringOf(d), marker)))

\* find('div', style=re.compile(pat))
FindDivStyle(n, pat) ==
    FirstOrNone(SelectSeq(Descendants(n), LAMBDA d : d.tag = "div" /\ Contains(d.style, pat)))

\* find('div', style=lambda x: x and pat not in x)
FindDivOtherStyle(n, pat) ==
    FirstOrNone(SelectSeq(Descendants(n),
        LAMBDA d : d.tag = "div" /\ d.style # "" /\ ~Contains(d.style, pat)))

\* a header block that forgets court and judge when the marker is missing
HeaderContext_Resets(ctx, court_header) ==
    IF court_header = NoNode THEN [court |-> None, judge |-> None, stage |-> ctx.stage]
    ELSE LET court_div == FindDivString(court_header, CourtMarker)
             judge_div == FindDivString(court_header, JudgeMarker)
         IN  [court |-> IF court_div # NoNode THEN get_text_strip(court_div, "") ELSE None,
              judge |-> IF judge_div # NoNode THEN get_text_strip(judge_div, "") ELSE None,
              stage |-> ctx.stage]

\* the header block of proxy.py:318-330: the context after looking at the
\* thead found before the table
HeaderContext(ctx, court_header) ==
    IF court_header = NoNode THEN ctx
    ELSE LET court_div == FindDivString(court_header, CourtMarker)
             judge_div == FindDivString(court_header, JudgeMarker)
             list_type_div == FindDivStyle(court_header, StageStyle)
         IN  [court |-> IF court_div # NoNode THEN get_text_strip(court_div, "")
                        ELSE ctx.court,
              judge |-> IF judge_div # NoNode THEN get_text_strip(judge_div, "")
                        ELSE ctx.judge,
              stage |-> IF list_type_div # NoNode THEN get_text_strip(list_type_div, "")
                        ELSE ctx.stage]

\* the index of the first line containing 'vs', or 0 (proxy.py:359-363)
VsLine(party_lines) ==
    IF \E i \in 1..Len(party_lines) : Contains(Lower(party_lines[i]), "vs")
    THEN CHOOSE i \in 1..Len(party_lines) :
            /\ Contains(Lower(party_lines[i]), "vs")
            /\ \A j \in 1..(i - 1) : ~Contains(Lower(party_lines[j]), "vs")
    ELSE 0

\* party_lines of a party cell (proxy.py:354-355)
PartyLines(party_col) ==
    SelectSeq(MapStrip(Split(get_text_strip(party_col, "\n"), "\n")), NonEmptyStr)

\* <<petitioner, respondent>> of a party cell (proxy.py:353-363)
SplitParties(party_col) ==
    LET party_lines == PartyLines(party_col)
        i == VsLine(party_lines)
    IN  IF i = 0 THEN <<"", "">>
        ELSE <<Join(" ", SubSeq(party_lines, 1, i - 1)),
               Join(" ", SubSeq(party_lines, i + 1, Len(party_lines)))>>

\* the validity filter of proxy.py:375
ValidCaseNo(case_no) == case_no # "" /\ Contains(case_no, "/")

MinCols == 6

\* the record of a row with at least six cells (proxy.py:343-389)
CaseRecord(cols, ctx) ==
    LET case_col == cols[2]
        case_link == FirstOrNone(SelectSeq(Descendants(case_col),
                        LAMBDA d : d.tag = "a" /\ d.id = "caseNumber"))
        connected == SelectSeq(Descendants(case_col), LAMBDA d : d.tag = "div" /\ d.dcase)
        parties == SplitParties(cols[3])
        district_col == cols[6]
        district_div == FindDivStyle(district_col, DistrictStyle)
        remarks_div == FindDivOtherStyle(district_col, DistrictStyle)
    IN  [s_no |-> get_text_strip(cols[1], ""),
         case_no |-> IF case_link # NoNode THEN get_text_strip(case_link, "")
                     ELSE get_text_strip(case_col, ""),
         connected_cases |-> [k \in 1..Len(connected) |-> get_text_strip(connected[k], "")],
         petitioner |-> parties[1],
         respondent |-> parties[2],
         petitioner_advocate |-> get_text_strip(cols[4], ""),
         respondent_advocate |-> get_text_strip(cols[5], ""),
         district |-> IF district_div # NoNode THEN get_text_strip(district_div, "")
                      ELSE get_text_strip(district_col, ""),
         remarks |-> IF remarks_div # NoNode THEN get_text_strip(remarks_div, "") ELSE "",
         court |-> ctx.court,
         judge |-> ctx.judge,
         stage |-> ctx.stage]

\* one iteration of the row loop (proxy.py:335-389): st = [ctx, cases]
ParseRow(st, row) ==
    LET stage_span == FirstOrNone(SelectSeq(Descendants(row),
                         LAMBDA d : d.tag = "span" /\ d.cls = "stage-name"))
        cols == find_all(row, "td")
    IN  IF stage_span # NoNode
        THEN [st EXCEPT !.ctx.stage = get_text_strip(stage_span, "")]
        ELSE IF Len(cols) >= MinCols
        THEN LET rec == CaseRecord(cols, st.ctx)
             IN  IF ValidCaseNo(rec.case_no)
                 THEN [st EXCEPT !.cases = Append(@, rec)]
                 ELSE st
        ELSE st

RECURSIVE ParseRows(_, _)
ParseRows(st, rows) ==
    IF rows = <<>> THEN st ELSE ParseRows(ParseRow(st, Head(rows)), Tail(rows))

RECURSIVE ParseTbodies(_, _)
\* the tbody loop (proxy.py:332-334)
ParseTbodies(st, tbodies) ==
    IF tbodies = <<>> THEN st
    ELSE ParseTbodies(ParseRows(st, find_all(Head(tbodies), "tr")), Tail(tbodies))

\* one iteration of the table loop (proxy.py:317-389) for the table at
\* position i of the document order
ParseTable(st, all, i) ==
    ParseTbodies([st EXCEPT !.ctx = HeaderContext(st.ctx, find_previous(all, i, "thead"))],
                 find_all(all[i], "tbody"))

RECURSIVE ParseTables(_, _, _)
ParseTables(st, all, idxs) ==
    IF idxs = <<>> THEN st
    ELSE ParseTables(ParseTable(st, all, Head(idxs)), all, Tail(idxs))

\* positions of soup.find_all('table', {'id': 'dataTable'}), in document order
DataTables(all) ==
    SelectSeq([i \in 1..Len(all) |-> i],
              LAMBDA i : all[i].tag = "table" /\ all[i].id = "dataTable")

InitialParse == [ctx |-> [court |-> None, judge |-> None, stage |-> None], cases |-> <<>>]

\* the mapping with the cases cut down to the figure of the summary line
ParseResult_Truncated(cases, total_cases, code, date_str) ==
    [cases |-> SubSeq(cases, 1, IF total_cases < Len(cases) THEN total_cases ELSE Len(cases)),
     count |-> IF total_cases < Len(cases) THEN total_cases ELSE Len(cases),
     total_cases_header |-> total_cases,
     advocate_code |-> code,
     date |-> date_str]

\* the mapping with the count taken from the page's summary line
ParseResult_HeaderCount(cases, total_cases, code, date_str) ==
    [cases |-> cases,
     count |-> total_cases,
     total_cases_header |-> total_cases,
     advocate_code |-> code,
     date |-> date_str]

\* the mapping _parse_html returns (proxy.py:391-397)
ParseResult(cases, total_cases, code, date_str) ==
    [cases |-> cases,
     count |-> Len(cases),
     total_cases_header |-> total_cases,
     advocate_code |-> code,
     date |-> date_str]

\* _parse_html(html, code, date_str) (proxy.py:298-397)
ParseHtml(soup, code, date_str) ==
    LET all == Descendants(soup)
    IN  ParseResult(ParseTables(InitialParse, all, DataTables(all)).cases,
                    TotalCases(get_text(soup)), code, date_str)

(***************************************************************************)
(* TSHCScraper._parse_html of the browser-automation application, the      *)
(* generic-table parser (src/tshc_server.py:153-189).                      *)
(***************************************************************************)
\* the case-number test of tshc_server.py:175-176
GenericValidCaseNo(case_no) ==
    /\ case_no # ""
    /\ \/ Contains(case_no, "/")
       \/ IsDigitStr(case_no)
       \/ Contains(Lower(case_no), "case")
    /\ ~(\E x \in {"case number", "s.no"} : Contains(Lower(case_no), x))

\* texts[k] if len(texts) > k else '' (k counted from 0)
TextAt(texts, k) == IF Len(texts) > k THEN texts[k + 1] ELSE ""

GenericRecord(texts) ==
    [s_no |-> TextAt(texts, 0),
     case_no |-> TextAt(texts, 1),
     petitioner |-> TextAt(texts, 2),
     respondent |-> TextAt(texts, 3),
     court |-> TextAt(texts, 4),
     judge |-> TextAt(texts, 5),
     time |-> TextAt(texts, 6),
     stage |-> TextAt(texts, 7)]

\* one iteration of the row loop (tshc_server.py:165-187); i counts from 0
GenericRow(cases, row, i) ==
    LET cols == find_all_in(row, {"td", "th"})
        texts == [k \in 1..Len(cols) |-> get_text_strip(cols[k], "")]
    IN  IF i = 0 THEN cases
        ELSE IF Len(cols) >= 2 /\ GenericValidCaseNo(TextAt(texts, 1))
        THEN Append(cases, GenericRecord(texts))
        ELSE cases

RECURSIVE GenericRows(_, _, _)
GenericRows(cases, rows, i) ==
    IF i >= Len(rows) THEN cases
    ELSE GenericRows(GenericRow(cases, rows[i + 1], i), rows, i + 1)

RECURSIVE GenericTables(_, _)
\* the table loop (tshc_server.py:161-163)
GenericTables(cases, tables) ==
    IF tables = <<>> THEN cases
    ELSE GenericTables(GenericRows(cases, find_all(Head(tables), "tr"), 0), Tail(tables))

\* _parse_html(html) (tshc_server.py:153-189)
GenericParseHtml(soup) ==
    LET cases == GenericTables(<<>>, find_all(soup, "table"))
    IN  [cases |-> cases, count |-> Len(cases)]

(***************************************************************************)
(* Result pages.  A page is a sequence of blocks, each an optional header  *)
(* (thead) followed by a table; a case row has the six cells of the court  *)
(* site's result table.                                                    *)
(***************************************************************************)
Br == El("br", <<>>)

RECURSIVE PartyNodes(_)
\* the text lines of a party cell, separated by <br>
PartyNodes(lines) ==
    IF lines = <<>> THEN <<>>
    ELSE IF Len(lines) = 1 THEN <<Txt(lines[1])>>
    ELSE <<Txt(lines[1]), Br>> \o PartyNodes(Tail(lines))

\* the text of the sequence-number cell of the n-th row of a page
SNo(n) == CharAt("123456789ABCDEFGHIJKLMNOPQRSTUVWXYZ", n)

DefaultParty == <<"Ram Kumar", " vs ", "State of Telangana">>

CaseRowOf(sno, case_no, party) ==
    El("tr", <<El("td", <<Txt(sno)>>),
               El("td", <<ElId("a", "caseNumber", <<Txt(case_no)>>)>>),
               El("td", PartyNodes(party)),
               El("td", <<Txt("A KUMAR")>>),
               El("td", <<Txt("GP FOR HOME")>>),
               El("td", <<ElStyle("div", DistrictStyle, <<Txt("HYDERABAD")>>)>>)>>)

StageRow(label) ==
    El("tr", <<El("td", <<ElClass("span", "stage-name", <<Txt(label)>>)>>)>>)

ShortRow(sno) ==
    El("tr", <<El("td", <<Txt(sno)>>), El("td", <<Txt("WP/9/2020")>>), El("td", <<Txt("-")>>)>>)

RowKinds == {"case", "digits", "word", "short", "stage"}

\* the row of kind k that is the n-th row of its page
RowOf(k, n) ==
    CASE k = "case"   -> CaseRowOf(SNo(n), "WP/101/2024", DefaultParty)
      [] k = "digits" -> CaseRowOf(SNo(n), "1234", DefaultParty)
      [] k = "word"   -> CaseRowOf(SNo(n), "LOK ADALAT", DefaultParty)
      [] k = "short"  -> ShortRow(SNo(n))
      [] k = "stage"  -> StageRow("FOR ADMISSION " \o SNo(n))

\* rows of the given kinds, numbered from n + 1
RowsOf(kinds, n) == [i \in 1..Len(kinds) |-> RowOf(kinds[i], n + i)]

Layouts == {"tbody", "bare", "nested"}

\* a result table holding the rows: in a tbody, directly under the table,
\* or in a table nested in a cell of the result table
TableOf(layout, rows) ==
    CASE layout = "tbody"  -> ElId("table", "dataTable", <<El("tbody", rows)>>)
      [] layout = "bare"   -> ElId("table", "dataTable", rows)
      [] layout = "nested" ->
            ElId("table", "dataTable",
                 <<El("tbody", <<El("tr", <<El("td",
                      <<El("table", <<El("tbody", rows)>>)>>)>>)>>)>>)

HeaderKinds == {"none", "full", "court", "plain"}

\* the header block before the t-th table
HeaderOf(kind, t) ==
    CASE kind = "none"  -> <<>>
      [] kind = "full"  ->
            <<El("thead", <<El("tr", <<El("th",
                <<El("div", <<Txt("COURT NO. " \o SNo(t))>>),
                  El("div", <<Txt("THE HONOURABLE SRI JUSTICE " \o SNo(t))>>),
                  ElStyle("div", StageStyle, <<Txt("DAILY LIST " \o SNo(t))>>)>>)>>)>>)>>
      [] kind = "court" ->
            <<El("thead", <<El("tr", <<El("th",
                <<El("div", <<Txt("COURT NO. " \o SNo(t))>>)>>)>>)>>)>>
      [] kind = "plain" ->
            <<El("thead", <<El("tr", <<El("th", <<El("div", <<Txt("S.No")>>)>>)>>)>>)>>

BlockOf(hkind, t, table) == El("div", HeaderOf(hkind, t) \o <<table>>)

PageOf(blocks) == El("[document]", blocks)

(***************************************************************************)
(* The pages the parsers are run on.                                       *)
(***************************************************************************)
MaxFilterRows == 5

MaxMixRows == 3

MaxTables == 2

MaxRows == 2

MaxStickyTables == 3

SeqsUpTo(S, n) == UNION {[1..k -> S] : k \in 0..n}

SeqsFromTo(S, m, n) == UNION {[1..k -> S] : k \in m..n}

\* one result table in a tbody whose rows pass or fail the case-number test
FilterPages ==
    {PageOf(<<BlockOf("none", 1, TableOf("tbody", RowsOf(kinds, 0)))>>) :
        kinds \in SeqsUpTo({"case", "digits", "word"}, MaxFilterRows)}

\* one result table in a tbody with rows of every kind
MixPages ==
    {PageOf(<<BlockOf("full", 1, TableOf("tbody", RowsOf(kinds, 0)))>>) :
        kinds \in SeqsUpTo(RowKinds, MaxMixRows)}

\* the t-th table of a page of well-formed rows, MaxRows rows reserved a table
StructBlock(t, layout, n) ==
    BlockOf("none", t, TableOf(layout, RowsOf([i \in 1..n |-> "case"], (t - 1) * (MaxRows + 1))))

\* up to MaxTables tables of well-formed rows, in each layout
StructPages ==
    {PageOf([t \in 1..Len(spec) |-> StructBlock(t, spec[t][1], spec[t][2])]) :
        spec \in SeqsFromTo(Layouts \X (0..MaxRows), 1, MaxTables)}

\* up to MaxStickyTables tables of one well-formed row and one stage row or
\* none, under each kind of header
StickyPages ==
    {PageOf([t \in 1..Len(hk) |->
                BlockOf(hk[t], t, TableOf("tbody", RowsOf(<<"case">>, t - 1)))]) :
        hk \in SeqsFromTo(HeaderKinds, 1, MaxStickyTables)}

PartyCells ==
    {<<"Ram Kumar", "Versus", "State of Telangana">>,
     <<"Ram Kumar", "vs", "State of Telangana">>,
     <<"Ram Kumar", " VS. ", "State of Telangana", "vs", "Union of India">>,
     <<"Ram Kumar", "and others", "Vs", "State of Telangana", "and another">>,
     <<"Devs Infra Ltd", "vs", "State of Telangana">>,
     <<"Ram Kumar", "State of Telangana">>,
     <<"vs", "State of Telangana">>,
     <<"Ram Kumar", "", "  ", "vs">>,
     <<>>}

PartyPage(party) ==
    PageOf(<<BlockOf("full", 1,
                TableOf("tbody", <<CaseRowOf(SNo(1), "WP/101/2024", party)>>))>>)

PartyPages == {PartyPage(party) : party \in PartyCells}

ParsePages == FilterPages \cup MixPages \cup StructPages \cup StickyPages \cup PartyPages

(***************************************************************************)
(* The pages the court site serves.                                        *)
(***************************************************************************)
\* a result page of two courts: three well-formed rows, one row whose case
\* number has no '/', and a summary line that counts four
CasesPage ==
    PageOf(<<BlockOf("full", 1, TableOf("tbody", RowsOf(<<"case", "stage", "case">>, 0))),
             BlockOf("full", 2, TableOf("tbody", RowsOf(<<"digits", "case">>, 3))),
             El("div", <<Txt("TOTAL CASES FOR 19272 = 4")>>)>>)

EmptyPage == PageOf(<<El("div", <<Txt("No records found")>>)>>)

FormPage == PageOf(<<El("form", <<El("input", <<>>), El("input", <<>>)>>)>>)

\* the page sent with an error status: a table of the server's own
ErrorPage ==
    PageOf(<<El("h1", <<Txt("Service Unavailable")>>),
             BlockOf("none", 1, TableOf("tbody", RowsOf(<<"case">>, 0)))>>)

ResultBodies == {"cases", "empty"}

Page(body) ==
    CASE body = "cases" -> CasesPage
      [] body = "empty" -> EmptyPage
      [] body = "form"  -> FormPage
      [] OTHER          -> ErrorPage

(***************************************************************************)
(* Requests, responses and exceptions.                                     *)
(***************************************************************************)
\* the applications: src/proxy.py and src/tshc-causelist-app-final/app.py
Apps == {"proxy", "tshc_app"}

\* the query arguments as they arrive
ArgCodes == {"", " 19272 ", "12a", "12345678901"}

ArgDates == {"", "28-01-2026", "2026-01-28", "28-1-2026"}

\* datetime.now().strftime("%d-%m-%Y")
Today == "02-11-2026"

\* datetime.now().strftime("%Y-%m-%d %H:%M:%S") and datetime.now().isoformat()
Now == "2026-11-02 06:00:00"

NowIso == "2026-11-02T06:00:00"

RetryStatuses == {429, 500, 502, 503, 504}

\* the statuses the court site answers with
Statuses == {200, 400, 403, 404, 413} \cup RetryStatuses

\* the requests exceptions a send can end in
SendErrors == {"Timeout", "ConnectionError", "SSLError"}

\* a response; retry_after tells whether it carries a Retry-After header
Response(status, body) ==
    [kind |-> "response", status |-> status, body |-> body, error |-> "", retry_after |-> FALSE]

RetryAfterResponse(status, body) ==
    [kind |-> "response", status |-> status, body |-> body, error |-> "", retry_after |-> TRUE]

SendError(e) ==
    [kind |-> "error", status |-> 0, body |-> "", error |-> e, retry_after |-> FALSE]

\* what one send of the step's request can end in
Outcomes(step) ==
    {SendError(e) : e \in SendErrors}
        \cup {Response(s, "error") : s \in Statuses \ {200}}
        \cup {RetryAfterResponse(413, "error")}
        \cup IF step = "get" THEN {Response(200, "form")}
             ELSE {Response(200, b) : b \in ResultBodies}

\* exceptions other than requests exceptions, with str(e)
OtherExceptions ==
    {[cls |-> "RecursionError", msg |-> "maximum recursion depth exceeded"],
     [cls |-> "MemoryError", msg |-> ""]}

\* str(status) of a three-digit status
StatusText(status) ==
    CharAt(DigitChars, (status \div 100) + 1)
        \o CharAt(DigitChars, ((status \div 10) % 10) + 1)
        \o CharAt(DigitChars, (status % 10) + 1)

\* str(e) of a requests exception
RequestExcMessage(exc, status) ==
    CASE exc = "Timeout"         -> "Read timed out. (read timeout=30)"
      [] exc = "ConnectionError" -> "Max retries exceeded (Failed to establish a new connection)"
      [] exc = "SSLError"        -> "Max retries exceeded (CERTIFICATE_VERIFY_FAILED)"
      [] exc = "HTTPError"       -> StatusText(status) \o " Error for url"

\* d.get(k, default)
Get(d, k, default) == IF k \in DOMAIN d THEN d[k] ELSE default

(***************************************************************************)
(* Validation (src/proxy.py:87-99).                                        *)
(***************************************************************************)
\* re.match(r'^\d{1,10}$', code)
validate_advocate_code(code) == code # "" /\ IsDigitStr(code) /\ Len(code) <= 10

\* re.match(r'^\d{2}-\d{2}-\d{4}$', date_str), True for no date
validate_date(date_str) ==
    \/ date_str = ""
    \/ /\ Len(date_str) = 10
       /\ \A i \in {1, 2, 4, 5, 7, 8, 9, 10} : IsDigit(CharAt(date_str, i))
       /\ CharAt(date_str, 3) = "-"
       /\ CharAt(date_str, 6) = "-"

\* the response of the handler to arguments it rejects, or NoNode when it
\* goes on to scrape (proxy.py:413-444; tshc-causelist-app-final/app.py:317-324)
Rejection(a, code, list_date) ==
    IF a = "proxy"
    THEN IF code = ""
         THEN [status |-> 400,
               body |-> [error |-> "Missing parameter: advocateCode required",
                         example |-> "/getDailyCauselist?advocateCode=19272&listDate=05-02-2026"]]
         ELSE IF ~validate_advocate_code(code)
         THEN [status |-> 400, body |-> [error |-> "Invalid advocate code format"]]
         ELSE IF ~validate_date(IF list_date = "" THEN Today ELSE list_date)
         THEN [status |-> 400,
               body |-> [error |-> "Invalid date format. Use DD-MM-YYYY",
                         example |-> "05-02-2026"]]
         ELSE NoNode
    ELSE IF code = ""
         THEN [status |-> 400,
               body |-> [error |-> "Advocate code is required", cases |-> <<>>, count |-> 0]]
         ELSE NoNode

(***************************************************************************)
(* The session transport (src/proxy.py:204-250) and the plain session of   *)
(* src/tshc-causelist-app-final/app.py:39-48.                              *)
(***************************************************************************)
\* Retry(total=3, ...) of proxy.py:209-215; the plain session's adapter
\* retries nothing
RetryTotal(a) == IF a = "proxy" THEN 3 ELSE 0

\* status_forcelist of proxy.py:212
StatusForcelist(a) == IF a = "proxy" THEN RetryStatuses ELSE {}

\* Retry.RETRY_AFTER_STATUS_CODES: respect_retry_after_header is left at its
\* default in proxy.py:209-215
RetryAfterStatusCodes == {413, 429, 503}

\* whether the adapter sends the request again after this outcome while it
\* has retries left: after an error, after a response whose status is in the
\* forcelist, and after a response with a Retry-After header whose status
\* is one of RetryAfterStatusCodes
is_retry(a, o) ==
    \/ o.kind = "error"
    \/ o.status \in StatusForcelist(a)
    \/ o.retry_after /\ o.status \in RetryAfterStatusCodes

\* the verification a request starts with (proxy.py:232; app.py:66, 86)
FirstVerify(a) == a = "proxy"

\* a raise_for_status that lets every status pass
raise_for_status_never(o) == None

\* response.raise_for_status(): the exception raised, or None
raise_for_status(o) == IF o.status >= 400 /\ o.status < 600 THEN "HTTPError" ELSE None

\* what a session call that ended with outcome o gives _make_request: the
\* exception raised by the call or by raise_for_status, or None
CallException(o) == IF o.kind = "error" THEN o.error ELSE raise_for_status(o)

\* a fallback that answers every exception of the verified attempt
FallsBack_any(a, verified, exc) == a = "proxy" /\ verified

\* whether _make_request answers the exception with its fallback
\* (proxy.py:239-250): only an SSLError of the verified attempt
FallsBack(a, verified, exc) == a = "proxy" /\ verified /\ exc = "SSLError"

(***************************************************************************)
(* fetch_data's envelopes (src/proxy.py:275-296;                           *)
(* src/tshc-causelist-app-final/app.py:92-109, 222-230).                   *)
(***************************************************************************)
\* the mapping returned when parsing succeeds
SuccessResult(a, body, code, date_str) ==
    ParseHtml(Page(body), code, date_str) @@ [method |-> "requests-session", timestamp |-> Now]

\* except requests.RequestException
RequestFailure(a, exc, status) ==
    IF a = "proxy"
    THEN [error |-> "Unable to connect to court website", cases |-> <<>>, count |-> 0,
          timestamp |-> Now]
    ELSE [error |-> "Network error: " \o RequestExcMessage(exc, status), cases |-> <<>>,
          count |-> 0]

\* except Exception
UnexpectedFailure(a, e) ==
    IF a = "proxy"
    THEN [error |-> "An error occurred while fetching data", cases |-> <<>>, count |-> 0,
          timestamp |-> Now]
    ELSE [error |-> e.msg, cases |-> <<>>, count |-> 0]

(***************************************************************************)
(* The handlers after the scrape (src/proxy.py:452-494;                    *)
(* src/tshc-causelist-app-final/app.py:326-329).                           *)
(***************************************************************************)
\* the success response of get_daily_causelist (proxy.py:475-485)
SuccessResponse(r, code, list_date) ==
    [status |-> 200,
     body |-> [cases |-> Get(r, "cases", <<>>),
               count |-> Len(Get(r, "cases", <<>>)),
               advocate_code |-> code,
               date |-> list_date,
               timestamp |-> Get(r, "timestamp", NowIso),
               method |-> Get(r, "method", "unknown")]]

\* the error response of get_daily_causelist (proxy.py:462-472)
ErrorResponse(r, code, list_date) ==
    [status |-> 502,
     body |-> [error |-> r.error,
               cases |-> Get(r, "cases", <<>>),
               count |-> Get(r, "count", 0),
               timestamp |-> Get(r, "timestamp", NowIso),
               advocate_code |-> code,
               date |-> list_date]]

HandlerResponse(a, r, code, list_date) ==
    IF a = "proxy"
    THEN IF Get(r, "error", "") # "" THEN ErrorResponse(r, code, list_date)
         ELSE SuccessResponse(r, code, list_date)
    ELSE [status |-> 200, body |-> r]

\* the response of the handler's own except clause (proxy.py:487-494)
HandlerFailure ==
    [status |-> 500,
     body |-> [error |-> "An error occurred. Please try again later", timestamp |-> Now,
               cases |-> <<>>, count |-> 0]]

(***************************************************************************)
(* State.                                                                  *)
(***************************************************************************)
VARIABLES
    doc,        \* the HTML document handed to the parsers
    parsed,     \* what the dataTable parser returned for doc, or NoNode
    generic,    \* what the generic-table parser returned for doc, or NoNode
    app,        \* the application that serves the request
    args,       \* the query arguments of the request being served
    pc,         \* where the handler is: idle, get, post, parse, respond, done
    verify,     \* whether the session call in progress verifies certificates
    total,      \* the retries the adapter has left for the session call
    hist,       \* the outcomes of the sends of the latest session call
    newcall,    \* whether the next send is the first of a session call
    contacted,  \* whether the request has sent anything to the court site
    page,       \* the body of the result response
    cause,      \* the class of the exception fetch_data caught, or None
    result,     \* what fetch_data returned, or NoNode
    response,   \* the handler's response [status, body], or NoNode
    wire,       \* the outbound requests the system has sent: [caller, url, verify, fallback]
    answer,     \* the latest answer of an endpoint or job: [caller, status]
    snapshots,  \* the rows of the causelist_history table: [advocate_code, date]
    sess,       \* per invocation of fetch_data: [pc, app, session, verify]
    jars,       \* the cookie jar of every requests.Session created so far
    net,        \* the session calls sent so far, in order, with the cookies they carried
    sel,        \* per invocation of the browser strategy: its locals and position
    browsers,   \* the browser processes started so far: [owner, state]
    clock,      \* the wall clock of the parse calls
    outputs,    \* what the parse calls of one document returned, in order
    lookup,     \* one call of _safe_find_element: its locators, the page and its tries
    rem,        \* the hearing reminder job: its position in tomorrow's list and its log
    notes       \* the rows of the notifications table: [user_id, case_number]

parsevars == <<doc, parsed, generic>>

callvars == <<verify, total, hist, newcall>>

reqvars == <<app, args, pc, contacted, page, cause, result, response>>

outvars == <<wire, answer, snapshots>>

sessvars == <<sess, jars, net>>

selvars == <<sel, browsers>>

twicevars == <<clock, outputs>>

findvars == <<lookup>>

remvars == <<rem, notes>>

\* the variables outside the parsers and the causelist request handlers
restvars == <<outvars, sessvars, selvars, twicevars, findvars, remvars>>

vars == <<doc, parsed, generic, app, args, pc, verify, total, hist, newcall,
          contacted, page, cause, result, response, wire, answer,
          snapshots, sess, jars, net, sel, browsers, clock, outputs, lookup, rem, notes>>

NoArgs == [code |-> "", date |-> ""]

\* no request is being served
Idle ==
    /\ args = NoArgs
    /\ pc = "idle"
    /\ verify = FALSE
    /\ total = 0
    /\ hist = <<>>
    /\ newcall = FALSE
    /\ contacted = FALSE
    /\ page = None
    /\ cause = None
    /\ result = NoNode
    /\ response = NoNode

\* no page is being parsed
ParseIdle ==
    /\ doc = EmptyPage
    /\ parsed = NoNode
    /\ generic = NoNode

\* nothing has been sent by the other endpoints and jobs
OutIdle ==
    /\ wire = {}
    /\ answer = NoNode
    /\ snapshots = <<>>

MaxInvocations == 2

\* the invocations that may run at the same time
Invocations == 1..MaxInvocations

\* no invocation of fetch_data has started
SessIdle ==
    /\ sess = [i \in Invocations |-> [pc |-> "idle", app |-> "proxy", session |-> 0,
                                      verify |-> FALSE]]
    /\ jars = <<>>
    /\ net = <<>>

\* no invocation of the browser strategy has started
SelIdle ==
    /\ sel = [i \in Invocations |-> [pc |-> "idle", driver |-> 0, which |-> None, pass |-> 0,
                                     idx |-> 0, adv_input |-> FALSE, date_input |-> FALSE,
                                     submit_btn |-> FALSE, inputs |-> <<>>,
                                     result |-> NoNode]]
    /\ browsers = <<>>

\* no document has been parsed twice
TwiceIdle ==
    /\ clock = 0
    /\ outputs = <<>>

\* no element is being looked up
FindIdle == lookup = NoNode

\* the reminder job has not run
RemIdle ==
    /\ rem = NoNode
    /\ notes = <<>>

StrategiesIdle == SessIdle /\ SelIdle /\ TwiceIdle /\ FindIdle /\ RemIdle

(***************************************************************************)
(* The parsers as a system: a page arrives and each parser is applied.     *)
(***************************************************************************)
ParseInit ==
    /\ doc \in ParsePages
    /\ parsed = NoNode
    /\ generic = NoNode
    /\ app = "proxy"
    /\ Idle
    /\ OutIdle
    /\ StrategiesIdle

\* TSHCScraper._parse_html of the session scraper
ParseStep ==
    /\ parsed = NoNode
    /\ parsed' = ParseHtml(doc, "19272", "28-01-2026")
    /\ UNCHANGED <<doc, generic>>
    /\ UNCHANGED <<callvars, reqvars, restvars>>

\* TSHCScraper._parse_html of the browser-automation scraper
GenericStep ==
    /\ generic = NoNode
    /\ generic' = GenericParseHtml(doc)
    /\ UNCHANGED <<doc, parsed>>
    /\ UNCHANGED <<callvars, reqvars, restvars>>

ParseNext == ParseStep \/ GenericStep

SpecParse == ParseInit /\ [][ParseNext]_vars

(***************************************************************************)
(* The request handlers as a system: get_daily_causelist of src/proxy.py   *)
(* and search of src/tshc-causelist-app-final/app.py, each with its        *)
(* scraper's fetch_data.                                                   *)
(***************************************************************************)
\* request.args.get(...).strip()
EffCode == Strip(args.code)

\* the date fetch_data is called with: today's for none
EffDate == IF Strip(args.date) = "" THEN Today ELSE Strip(args.date)

Init ==
    /\ ParseIdle
    /\ app \in Apps
    /\ Idle
    /\ OutIdle
    /\ StrategiesIdle

\* the handler up to the scrape: the arguments are read and checked
\* (proxy.py:412-449; tshc-causelist-app-final/app.py:317-326)
Request(code, date) ==
    /\ pc = "idle"
    /\ args' = [code |-> code, date |-> date]
    /\ LET rej == Rejection(app, Strip(code), Strip(date))
       IN  IF rej # NoNode
           THEN /\ response' = rej
                /\ pc' = "done"
                /\ UNCHANGED callvars
           ELSE /\ pc' = "get"
                /\ verify' = FirstVerify(app)
                /\ total' = RetryTotal(app)
                /\ newcall' = TRUE
                /\ UNCHANGED <<response, hist>>
    /\ UNCHANGED <<app, contacted, page, cause, result, parsevars, restvars>>

\* one send of the session call in progress, ending in outcome o: the
\* adapter sends again, or the call ends and _make_request and fetch_data
\* go on with its response or exception (proxy.py:228-296;
\* tshc-causelist-app-final/app.py:61-100)
Send(o) ==
    /\ pc \in {"get", "post"}
    /\ o \in Outcomes(pc)
    /\ contacted' = TRUE
    /\ hist' = IF newcall THEN <<o>> ELSE Append(hist, o)
    /\ IF is_retry(app, o) /\ total > 0
       THEN /\ total' = total - 1
            /\ newcall' = FALSE
            /\ UNCHANGED <<pc, verify, page, cause, result>>
       ELSE LET exc == CallException(o)
            IN  IF exc = None
                THEN IF pc = "get"
                     THEN /\ pc' = "post"
                          /\ verify' = FirstVerify(app)
                          /\ total' = RetryTotal(app)
                          /\ newcall' = TRUE
                          /\ UNCHANGED <<page, cause, result>>
                     ELSE /\ pc' = "parse"
                          /\ page' = o.body
                          /\ newcall' = FALSE
                          /\ UNCHANGED <<verify, total, cause, result>>
                ELSE IF FallsBack(app, verify, exc)
                THEN /\ verify' = FALSE
                     /\ total' = RetryTotal(app)
                     /\ newcall' = TRUE
                     /\ UNCHANGED <<pc, page, cause, result>>
                ELSE /\ pc' = "respond"
                     /\ cause' = exc
                     /\ result' = RequestFailure(app, exc, o.status)
                     /\ newcall' = FALSE
                     /\ UNCHANGED <<verify, total, page>>
    /\ UNCHANGED <<app, args, response, parsevars, restvars>>

\* _parse_html returns (proxy.py:275-279; app.py:92)
ParseOk ==
    /\ pc = "parse"
    /\ result' = SuccessResult(app, page, EffCode, EffDate)
    /\ pc' = "respond"
    /\ UNCHANGED <<app, args, contacted, page, cause, response>>
    /\ UNCHANGED <<callvars, parsevars, restvars>>

\* _parse_html raises (proxy.py:289-296; app.py:101-109)
ParseRaise(e) ==
    /\ pc = "parse"
    /\ cause' = e.cls
    /\ result' = UnexpectedFailure(app, e)
    /\ pc' = "respond"
    /\ UNCHANGED <<app, args, contacted, page, response>>
    /\ UNCHANGED <<callvars, parsevars, restvars>>

\* the handler answers with what fetch_data returned (proxy.py:452-485;
\* app.py:327-329)
Respond ==
    /\ pc = "respond"
    /\ response' = HandlerResponse(app, result, EffCode, EffDate)
    /\ pc' = "done"
    /\ UNCHANGED <<app, args, contacted, page, cause, result>>
    /\ UNCHANGED <<callvars, parsevars, restvars>>

\* the handler's own except clause answers (proxy.py:487-494)
HandlerRaise ==
    /\ pc = "respond"
    /\ app = "proxy"
    /\ response' = HandlerFailure
    /\ pc' = "done"
    /\ UNCHANGED <<app, args, contacted, page, cause, result>>
    /\ UNCHANGED <<callvars, parsevars, restvars>>

\* the response is sent; the handler is ready for the next request
Finish ==
    /\ pc = "done"
    /\ args' = NoArgs
    /\ pc' = "idle"
    /\ verify' = FALSE
    /\ total' = 0
    /\ hist' = <<>>
    /\ newcall' = FALSE
    /\ contacted' = FALSE
    /\ page' = None
    /\ cause' = None
    /\ result' = NoNode
    /\ response' = NoNode
    /\ UNCHANGED <<app, parsevars, restvars>>

Next ==
    \/ \E code \in ArgCodes, date \in ArgDates : Request(code, date)
    \/ \E o \in Outcomes("get") \cup Outcomes("post") : Send(o)
    \/ ParseOk
    \/ \E e \in OtherExceptions : ParseRaise(e)
    \/ Respond
    \/ HandlerRaise
    \/ Finish

Spec == Init /\ [][Next]_vars

(***************************************************************************)
(* The outbound calls of the system: the scrape of the causelist handlers, *)
(* get_case_details, get_adv_report and get_sitting_arrangements of        *)
(* src/proxy.py, and save_daily_causelist of src/cron_service.py.  Each    *)
(* handler runs from its arguments to its answer in one step; a session    *)
(* call stands for its sends, and ends with the outcome of the last.       *)
(***************************************************************************)
FormUrl == "https://causelist.tshc.gov.in" \o "/advocateCodeCauseList"

ResultUrl == "https://causelist.tshc.gov.in" \o "/advocateCodeWiseView"

SittingUrl == "https://tshc.gov.in/processBodySetionTypes?id=197"

\* quote() changes nothing in arguments that passed validation
CaseDetailsUrl(mtype, mno, myear) ==
    "https://csis.tshc.gov.in/getCaseDetails?mtype=" \o mtype \o "&mno=" \o mno
        \o "&myear=" \o myear

AdvReportUrl(advcode, year) ==
    "https://csis.tshc.gov.in/getAdvReport?advcode=" \o advcode \o "&year=" \o year

\* APP_URL of the environment
AppUrls == {"http://127.0.0.1:10000", "https://fasi-law-chamber.example.com/"}

\* base.rstrip('/')
RStripSlash(base) ==
    IF base # "" /\ CharAt(base, Len(base)) = "/" THEN SubSeq(base, 1, Len(base) - 1) ELSE base

\* the methods of SupabaseClient (src/supabase_client.py:30-187)
SupabaseMethods ==
    {"get_task", "get_case", "get_user", "get_all_active_users", "create_notification",
     "get_tomorrow_hearings", "get_case_assignees", "create_audit_log", "get_audit_logs"}

\* one outbound request as it goes out
Sent(caller, url, verified, fallback) ==
    [caller |-> caller, url |-> url, verify |-> verified, fallback |-> fallback]

\* the outcomes a call can end with
CallOutcomes ==
    {Response(200, "empty"), Response(200, "form"), Response(404, "error")}
        \cup {SendError(e) : e \in SendErrors}

\* re.match(r'^[A-Z]{2,10}$', mtype), ^\d{1,10}$ and ^\d{4}$ (proxy.py:77-85)
validate_case_params(mtype, mno, myear) ==
    /\ Len(mtype) \in 2..10
    /\ \A i \in 1..Len(mtype) : Contains(UpperChars, CharAt(mtype, i))
    /\ IsDigitStr(mno) /\ Len(mno) <= 10
    /\ IsDigitStr(myear) /\ Len(myear) = 4

\* the status of the except clauses of the csis handlers (proxy.py:134-148)
\* and of the answer to a response; only the body "empty" stands for JSON
CsisStatus(o) ==
    IF o.kind = "error" THEN (IF o.error = "Timeout" THEN 504 ELSE 502)
    ELSE IF o.status # 200 THEN 502
    ELSE IF o.body # "empty" THEN 502
    ELSE 200

\* the runs of one _make_request: what is sent, the exception it ends
\* with or None, and the last outcome (proxy.py:228-250; the plain session
\* of the legacy application sends once, unverified)
MakeRequestRuns(a, caller, url) ==
    UNION {LET exc == CallException(o)
               first == {Sent(caller, url, FirstVerify(a), FALSE)}
           IN  IF FallsBack(a, FirstVerify(a), exc)
               THEN {[sent |-> first \cup {Sent(caller, url, FALSE, TRUE)},
                      exc |-> CallException(o2), last |-> o2] : o2 \in CallOutcomes}
               ELSE {[sent |-> first, exc |-> exc, last |-> o]}
           : o \in CallOutcomes}

\* the runs of one fetch_data: the POST is made when the GET raised nothing
FetchRuns(a, caller) ==
    UNION {IF g.exc # None THEN {g}
           ELSE {[sent |-> g.sent \cup r.sent, exc |-> r.exc, last |-> r.last] :
                    r \in MakeRequestRuns(a, caller, ResultUrl)}
           : g \in MakeRequestRuns(a, caller, FormUrl)}

Caller(a) == IF a = "proxy" THEN "getDailyCauselist" ELSE "search"

\* get_daily_causelist of src/proxy.py and search of the legacy application
DailyCauselist(a, code, date) ==
    LET rej == Rejection(a, Strip(code), Strip(date))
        list_date == IF Strip(date) = "" THEN Today ELSE Strip(date)
    IN  IF rej # NoNode
        THEN /\ answer' = [caller |-> Caller(a), status |-> rej.status]
             /\ UNCHANGED wire
        ELSE \E r \in FetchRuns(a, Caller(a)) :
                /\ wire' = wire \cup r.sent
                /\ answer' =
                      [caller |-> Caller(a),
                       status |-> HandlerResponse(a,
                                     IF r.exc = None
                                     THEN SuccessResult(a, r.last.body, Strip(code), list_date)
                                     ELSE RequestFailure(a, r.exc, r.last.status),
                                     Strip(code), list_date).status]

\* get_case_details (proxy.py:106-148)
GetCaseDetails(mtype, mno, myear, o) ==
    IF mtype = "" \/ mno = "" \/ myear = "" \/ ~validate_case_params(mtype, mno, myear)
    THEN /\ answer' = [caller |-> "getCaseDetails", status |-> 400]
         /\ UNCHANGED wire
    ELSE /\ wire' = wire \cup {Sent("getCaseDetails", CaseDetailsUrl(mtype, mno, myear),
                                    TRUE, FALSE)}
         /\ answer' = [caller |-> "getCaseDetails", status |-> CsisStatus(o)]

\* get_adv_report (proxy.py:150-195)
GetAdvReport(advcode, year, o) ==
    IF advcode = "" \/ year = "" \/ ~validate_advocate_code(advcode)
            \/ ~(IsDigitStr(year) /\ Len(year) = 4)
    THEN /\ answer' = [caller |-> "getAdvReport", status |-> 400]
         /\ UNCHANGED wire
    ELSE /\ wire' = wire \cup {Sent("getAdvReport", AdvReportUrl(advcode, year), TRUE, FALSE)}
         /\ answer' = [caller |-> "getAdvReport", status |-> CsisStatus(o)]

\* get_sitting_arrangements (proxy.py:497-540): o1 ends the verified call,
\* o2 the call made after an SSLError
GetSittingArrangements(o1, o2) ==
    LET fell == o1.kind = "error" /\ o1.error = "SSLError"
        o == IF fell THEN o2 ELSE o1
    IN  /\ wire' = wire \cup {Sent("getSittingArrangements", SittingUrl, TRUE, FALSE)}
                        \cup (IF fell
                              THEN {Sent("getSittingArrangements", SittingUrl, FALSE, TRUE)}
                              ELSE {})
        /\ answer' = [caller |-> "getSittingArrangements",
                      status |-> IF o.kind = "error"
                                 THEN (IF o.error = "Timeout" THEN 504 ELSE 502)
                                 ELSE IF o.status # 200 THEN 502 ELSE 200]

\* existing of save_daily_causelist (cron_service.py:160-161): a row of
\* causelist_history for the advocate code and the date
Existing(code, date) ==
    \E k \in 1..Len(snapshots) :
        snapshots[k] = [advocate_code |-> code, date |-> date]

\* save_daily_causelist (cron_service.py:147-189): the exception of a
\* missing method, of the call or of raise_for_status ends the job in its
\* except clause
SaveDailyCauselist(code_env, base, o) ==
    IF Strip(code_env) = ""
    THEN /\ answer' = [caller |-> "save_daily_causelist", status |-> "skipped"]
         /\ UNCHANGED <<wire, snapshots>>
    ELSE IF "get_causelist_history" \notin SupabaseMethods
    THEN /\ answer' = [caller |-> "save_daily_causelist", status |-> "failed"]
         /\ UNCHANGED <<wire, snapshots>>
    ELSE IF Existing(Strip(code_env), Today)
    THEN /\ answer' = [caller |-> "save_daily_causelist", status |-> "exists"]
         /\ UNCHANGED <<wire, snapshots>>
    ELSE LET saved == CallException(o) = None
                      /\ "save_causelist_history" \in SupabaseMethods
         IN  /\ wire' = wire \cup
                    {Sent("save_daily_causelist",
                          RStripSlash(base) \o "/getDailyCauselist?advocateCode="
                              \o Strip(code_env) \o "&listDate=" \o Today,
                          FALSE, FALSE)}
             /\ answer' = [caller |-> "save_daily_causelist",
                           status |-> IF saved THEN "saved" ELSE "failed"]
             /\ snapshots' = IF saved
                             THEN Append(snapshots, [advocate_code |-> Strip(code_env),
                                                     date |-> Today])
                             ELSE snapshots

\* the arguments the csis endpoints are asked with
CaseTypes == {"", "WP", "wp"}

Numbers == {"", "101", "10a"}

Years == {"", "2024", "24"}

OutInit ==
    /\ ParseIdle
    /\ app = "proxy"
    /\ Idle
    /\ OutIdle
    /\ StrategiesIdle

\* what the outbound calls leave alone
OutRest == UNCHANGED <<parsevars, callvars, reqvars, sessvars, selvars, twicevars, findvars, remvars>>

OutNext ==
    \/ \E a \in Apps, code \in ArgCodes, date \in ArgDates :
          DailyCauselist(a, code, date) /\ OutRest /\ UNCHANGED snapshots
    \/ \E mtype \in CaseTypes, mno \in Numbers, myear \in Years, o \in CallOutcomes :
          GetCaseDetails(mtype, mno, myear, o) /\ OutRest /\ UNCHANGED snapshots
    \/ \E advcode \in Numbers, year \in Years, o \in CallOutcomes :
          GetAdvReport(advcode, year, o) /\ OutRest /\ UNCHANGED snapshots
    \/ \E o1 \in CallOutcomes, o2 \in CallOutcomes :
          GetSittingArrangements(o1, o2) /\ OutRest /\ UNCHANGED snapshots
    \/ \E code_env \in ArgCodes, base \in AppUrls, o \in CallOutcomes :
          SaveDailyCauselist(code_env, base, o) /\ OutRest

SpecOut == OutInit /\ [][OutNext]_vars

(***************************************************************************)
(* Sessions and cookies: each request builds a TSHCScraper, whose          *)
(* __init__ creates a requests.Session (src/proxy.py:204-226, 449;         *)
(* src/tshc-causelist-app-final/app.py:39-48, 326).  fetch_data sends the  *)
(* form GET and the result POST on self.session.  A step is one session    *)
(* call of one invocation; invocations interleave freely.                  *)
(***************************************************************************)
\* a TSHCScraper that uses one session for every instance
NewSessionId_shared(js) == 1

\* requests.Session(): a session of its own, with an empty jar
NewSessionId(js) == Len(js) + 1

\* a session call that sends no cookies of the session
CookieHeader_bare(jar) == {}

\* the cookies a session call carries: the jar of its session
CookieHeader(jar) == jar

\* Set-Cookie of the site's session cookie: the new value replaces the old
SetCookie(jar, c) == {c}

\* what a session call of this part ends with
SessOutcomes ==
    {Response(200, "empty"), Response(404, "error"), SendError("SSLError"),
     SendError("Timeout")}

\* scraper = TSHCScraper()
SessStart(i, a) ==
    /\ sess[i].pc = "idle"
    /\ LET id == NewSessionId(jars)
       IN  /\ jars' = IF id > Len(jars) THEN Append(jars, {}) ELSE jars
           /\ sess' = [sess EXCEPT ![i] = [pc |-> "get", app |-> a, session |-> id,
                                           verify |-> FirstVerify(a)]]
    /\ UNCHANGED <<net, parsevars, callvars, reqvars, outvars, selvars, twicevars, findvars, remvars>>

\* one session call of fetch_data: self.session.get or self.session.post
\* with outcome o; issued is whether the response sets the session cookie
SessCall(i, o, issued) ==
    /\ sess[i].pc \in {"get", "post"}
    /\ LET me == sess[i]
           cookie == IF o.kind = "response" /\ issued THEN Len(net) + 1 ELSE 0
           exc == CallException(o)
       IN  /\ net' = Append(net, [inv |-> i, session |-> me.session, method |-> me.pc,
                                  verify |-> me.verify,
                                  cookies |-> CookieHeader(jars[me.session]),
                                  outcome |-> o, set |-> cookie])
           /\ jars' = IF cookie # 0
                      THEN [jars EXCEPT ![me.session] = SetCookie(@, cookie)]
                      ELSE jars
           /\ sess' = [sess EXCEPT ![i] =
                          IF FallsBack(me.app, me.verify, exc)
                          THEN [me EXCEPT !.verify = FALSE]
                          ELSE IF exc # None THEN [me EXCEPT !.pc = "failed"]
                          ELSE IF me.pc = "get"
                          THEN [me EXCEPT !.pc = "post", !.verify = FirstVerify(me.app)]
                          ELSE [me EXCEPT !.pc = "parsed"]]
    /\ UNCHANGED <<parsevars, callvars, reqvars, outvars, selvars, twicevars, findvars, remvars>>

SessInit ==
    /\ ParseIdle
    /\ app = "proxy"
    /\ Idle
    /\ OutIdle
    /\ StrategiesIdle

SessNext ==
    \/ \E i \in Invocations, a \in Apps : SessStart(i, a)
    \/ \E i \in Invocations, o \in SessOutcomes, issued \in BOOLEAN : SessCall(i, o, issued)

SpecSess == SessInit /\ [][SessNext]_vars

(***************************************************************************)
(* The browser-automation strategy: fetch_data and _safe_find_element of   *)
(* src/tshc_server.py:26-151.  A step is one statement that touches the    *)
(* browser, or one iteration of a locator loop; any of them may raise.     *)
(***************************************************************************)
\* the locator lists fetch_data hands to _safe_find_element
AdvLocators ==
    <<"name=advocateCode", "id=advocateCode", "css=input[name='advocateCode']",
      "xpath=//input[@placeholder='Enter Advocate Code']",
      "xpath=//input[contains(@name, 'advocate')]">>

DateLocators ==
    <<"name=causeListDate", "id=causeListDate", "css=input[type='date']",
      "xpath=//input[@placeholder='Select Date']">>

SubmitLocators ==
    <<"css=input[type='submit']", "css=button[type='submit']", "xpath=//input[@value='Search']",
      "xpath=//input[@value='Submit']", "xpath=//button[contains(text(), 'Search')]",
      "xpath=//button[contains(text(), 'Submit')]">>

Locators(which) ==
    IF which = "adv" THEN AdvLocators
    ELSE IF which = "date" THEN DateLocators
    ELSE SubmitLocators

\* the envelopes fetch_data returns
MissingField ==
    [error |-> "Could not find advocate code field. Website may have changed.",
     cases |-> <<>>]

NoRecords ==
    [cases |-> <<>>, count |-> 0, message |-> "No cases found for this advocate on this date."]

ScrapingFailed(msg) == [error |-> "Scraping failed: " \o msg, cases |-> <<>>]

\* self._parse_html(driver.page_source) for the pages of the result bodies
GenericOfBody == [b \in ResultBodies |-> GenericParseHtml(Page(b))]

\* a finally clause that leaves the browser running
Quit_leaves(bs, d) == bs

\* driver.quit()
Quit(bs, d) == [bs EXCEPT ![d].state = "quit"]

\* a loop that starts over when the locators are through
NextTry_wraps(me) ==
    IF me.idx < Len(Locators(me.which)) THEN [me EXCEPT !.idx = me.idx + 1]
    ELSE [me EXCEPT !.idx = 1]

\* the for loops of _safe_find_element: the position after a locator that
\* did not give the element, or NoNode when both loops are through
NextTry(me) ==
    IF me.idx < Len(Locators(me.which)) THEN [me EXCEPT !.idx = me.idx + 1]
    ELSE IF me.pass = 1 THEN [me EXCEPT !.pass = 2, !.idx = 1]
    ELSE NoNode

\* a call of _safe_find_element begins
Find(me, which) == [me EXCEPT !.pc = "find", !.which = which, !.pass = 1, !.idx = 1]

\* fetch_data goes on with what _safe_find_element returned
AfterFind(me, found) ==
    IF me.which = "adv"
    THEN IF found THEN [me EXCEPT !.pc = "fill_adv", !.adv_input = TRUE]
         ELSE [me EXCEPT !.pc = "finally", !.result = MissingField]
    ELSE IF me.which = "date"
    THEN IF found THEN [me EXCEPT !.pc = "fill_date", !.date_input = TRUE]
         ELSE Find(me, "submit")
    ELSE [me EXCEPT !.pc = "submit", !.submit_btn = found]

\* the except clause is entered with the exception's message
Raise(me, msg) == [me EXCEPT !.pc = "except", !.result = ScrapingFailed(msg)]

SelRest == UNCHANGED <<parsevars, callvars, reqvars, outvars, sessvars, twicevars, findvars, remvars>>

\* fetch_data is entered: driver = None
SelStart(i) ==
    /\ sel[i].pc = "idle"
    /\ sel' = [sel EXCEPT ![i].pc = "chrome"]
    /\ UNCHANGED browsers
    /\ SelRest

\* ChromeDriverManager().install() and webdriver.Chrome(...)
SelChrome(i, ok) ==
    /\ sel[i].pc = "chrome"
    /\ IF ok
       THEN /\ browsers' = Append(browsers, [owner |-> i, state |-> "running"])
            /\ sel' = [sel EXCEPT ![i].pc = "load", ![i].driver = Len(browsers) + 1]
       ELSE /\ sel' = [sel EXCEPT ![i] = Raise(@, "session not created")]
            /\ UNCHANGED browsers
    /\ SelRest

\* driver.get(self.base_url), driver.title, driver.current_url
SelLoad(i, ok) ==
    /\ sel[i].pc = "load"
    /\ sel' = [sel EXCEPT ![i] = IF ok THEN Find(@, "adv") ELSE Raise(@, "page load failed")]
    /\ UNCHANGED browsers
    /\ SelRest

\* one iteration of a loop of _safe_find_element
SelTry(i, found) ==
    /\ sel[i].pc = "find"
    /\ sel' = [sel EXCEPT ![i] =
                  IF found THEN AfterFind(@, TRUE)
                  ELSE IF NextTry(@) = NoNode THEN AfterFind(@, FALSE)
                  ELSE NextTry(@)]
    /\ UNCHANGED browsers
    /\ SelRest

\* the form is submitted with a button that is never looked at
SubmitHow_click(me) == "click"

\* submit_btn.click(), or adv_input.submit() when no button was found
\* (tshc_server.py:97-103)
SubmitHow(me) == IF me.submit_btn THEN "click" ELSE "submit"

\* the input an element has taken is noted in the order it was given
Input(me, what) == [me EXCEPT !.inputs = Append(@, what)]

\* clear() and send_keys() on the field that was found
SelFill(i, ok) ==
    /\ sel[i].pc \in {"fill_adv", "fill_date"}
    /\ sel' = [sel EXCEPT ![i] =
                  IF ~ok THEN Raise(@, "element not interactable")
                  ELSE IF @.pc = "fill_adv" THEN Find(Input(@, "fill adv"), "date")
                  ELSE Find(Input(@, "fill date"), "submit")]
    /\ UNCHANGED browsers
    /\ SelRest

\* submit_btn.click(), or adv_input.submit() without a button
SelSubmit(i, ok) ==
    /\ sel[i].pc = "submit"
    /\ sel' = [sel EXCEPT ![i] =
                  IF ok THEN [Input(@, SubmitHow(@)) EXCEPT !.pc = "body"]
                  ELSE Raise(@, "click intercepted")]
    /\ UNCHANGED browsers
    /\ SelRest

\* the text of the body, then the parse of the page source
SelBody(i, seen) ==
    /\ sel[i].pc = "body"
    /\ sel' = [sel EXCEPT ![i] =
                  IF seen = "raise" THEN Raise(@, "no such element")
                  ELSE IF seen = "no record"
                  THEN [@ EXCEPT !.pc = "finally", !.result = NoRecords]
                  ELSE [@ EXCEPT !.pc = "finally", !.result = GenericOfBody[seen]]]
    /\ UNCHANGED browsers
    /\ SelRest

\* except Exception: the screenshot is tried and the error envelope returned
SelExcept(i) ==
    /\ sel[i].pc = "except"
    /\ sel' = [sel EXCEPT ![i].pc = "finally"]
    /\ UNCHANGED browsers
    /\ SelRest

\* finally: if driver: driver.quit(); then fetch_data has returned
SelFinally(i) ==
    /\ sel[i].pc = "finally"
    /\ browsers' = IF sel[i].driver # 0 THEN Quit(browsers, sel[i].driver) ELSE browsers
    /\ sel' = [sel EXCEPT ![i].pc = "returned"]
    /\ SelRest

SelInit ==
    /\ ParseIdle
    /\ app = "proxy"
    /\ Idle
    /\ OutIdle
    /\ StrategiesIdle

\* the steps of invocation i
SelSteps(i) ==
    \/ SelStart(i)
    \/ \E ok \in BOOLEAN : SelChrome(i, ok)
    \/ \E ok \in BOOLEAN : SelLoad(i, ok)
    \/ \E found \in BOOLEAN : SelTry(i, found)
    \/ \E ok \in BOOLEAN : SelFill(i, ok)
    \/ \E ok \in BOOLEAN : SelSubmit(i, ok)
    \/ \E seen \in {"raise", "no record"} \cup ResultBodies : SelBody(i, seen)
    \/ SelExcept(i)
    \/ SelFinally(i)

SelNext == \E i \in Invocations : SelSteps(i)

SpecSel == SelInit /\ [][SelNext]_vars

(***************************************************************************)
(* One invocation at a time, of the strategy of the application that       *)
(* serves it.  Every send and every browser call carries a timeout         *)
(* (timeout=30, WebDriverWait(driver, 5)), so a step that can be taken is  *)
(* taken: the next-state relation is weakly fair.                          *)
(***************************************************************************)
\* the application of src/tshc_server.py
SelApp == "tshc_server"

TermInit ==
    /\ ParseIdle
    /\ app \in Apps \cup {SelApp}
    /\ Idle
    /\ OutIdle
    /\ StrategiesIdle

\* the steps in which _parse_html returns or raises
ParseSteps == ParseOk \/ \E e \in OtherExceptions : ParseRaise(e)

\* what a send ends in here: a page, a status the adapter sends again for,
\* a status it does not, a certificate error and a timeout
TermOutcomes ==
    {Response(200, "form"), Response(200, "cases"), Response(503, "error"),
     Response(404, "error"), SendError("SSLError"), SendError("Timeout")}

\* the sends of the session calls
SendSteps == \E o \in TermOutcomes : Send(o)

TermNext ==
    \/ /\ app \in Apps
       /\ \/ Request(" 19272 ", "28-01-2026")
          \/ SendSteps
          \/ ParseSteps
          \/ Respond
          \/ HandlerRaise
          \/ Finish
    \/ app = SelApp /\ SelSteps(1)

\* weak fairness of the parse step, which can be taken exactly when
\* pc = "parse"
ParseFair == []<>(pc # "parse") \/ []<><<ParseSteps>>_vars

SpecTerm ==
    /\ TermInit
    /\ [][TermNext]_vars
    /\ WF_vars(SelSteps(1))
    /\ WF_vars(SendSteps)
    /\ ParseFair

(***************************************************************************)
(* _parse_html called more than once on one document, at the times of a    *)
(* clock that runs between the calls (src/proxy.py:298-397;                *)
(* src/tshc-causelist-app-final/app.py:111-230).                           *)
(***************************************************************************)
MaxClock == 2

MaxCalls == 2

\* datetime.now().strftime("%Y-%m-%d %H:%M:%S") when the clock shows t seconds
Stamp(t) == "2026-11-02 06:00:0" \o CharAt(DigitChars, t + 1)

\* what _parse_html of application a returns for the document at time t
ParseAt(a, soup, code, date_str, t) ==
    IF a = "proxy" THEN ParseHtml(soup, code, date_str)
    ELSE ParseHtml(soup, code, date_str)
            @@ [timestamp |-> Stamp(t), method |-> "requests-session"]

\* time passes
Tick ==
    /\ clock < MaxClock
    /\ clock' = clock + 1
    /\ UNCHANGED <<outputs, parsevars, callvars, reqvars, outvars, sessvars, selvars, findvars, remvars>>

\* one call of _parse_html on the document
ParseCall(a) ==
    /\ Len(outputs) < MaxCalls
    /\ outputs' = Append(outputs, [app |-> a, at |-> clock,
                                   out |-> ParseAt(a, doc, "19272", "28-01-2026", clock)])
    /\ UNCHANGED <<clock, parsevars, callvars, reqvars, outvars, sessvars, selvars, findvars, remvars>>

TwiceInit ==
    /\ doc \in {Page(b) : b \in ResultBodies} \cup {FormPage, ErrorPage}
    /\ parsed = NoNode
    /\ generic = NoNode
    /\ app = "proxy"
    /\ Idle
    /\ OutIdle
    /\ StrategiesIdle

TwiceNext ==
    \/ Tick
    \/ \E a \in Apps : ParseCall(a)

SpecTwice == TwiceInit /\ [][TwiceNext]_vars

(***************************************************************************)
(* One result page served with different summary lines: the text           *)
(* 'TOTAL CASES FOR <code> = <n>' in a block of its own before or after    *)
(* the tables, or no such block (src/proxy.py:303-311, 391-397).           *)
(***************************************************************************)
\* the summary texts, None for a page without the block
Summaries ==
    {None, "TOTAL CASES FOR 19272 = 0", "TOTAL CASES FOR 19272 = 1",
     "TOTAL CASES FOR 19272 = 7", "TOTAL CASES : 3"}

SummaryPlaces == {"front", "back"}

\* the page with the summary block put in
WithSummary(soup, text, place) ==
    IF text = None THEN soup
    ELSE IF place = "front"
    THEN [soup EXCEPT !.kids = <<El("div", <<Txt(text)>>)>> \o @]
    ELSE [soup EXCEPT !.kids = Append(@, El("div", <<Txt(text)>>))]

\* the pages the summary is added to: one table of up to MaxRows rows
SummaryDocs ==
    {PageOf(<<BlockOf("full", 1, TableOf("tbody", RowsOf(kinds, 0)))>>) :
        kinds \in SeqsUpTo({"case", "digits"}, MaxRows)}
        \cup {EmptyPage}

\* _parse_html on the page as served with the summary
ParseSummary(text, place) ==
    /\ Len(outputs) < MaxCalls
    /\ outputs' = Append(outputs,
                         [summary |-> text,
                          out |-> ParseHtml(WithSummary(doc, text, place), "19272",
                                            "28-01-2026")])
    /\ UNCHANGED <<clock, parsevars, callvars, reqvars, outvars, sessvars, selvars, findvars, remvars>>

SummaryInit ==
    /\ doc \in SummaryDocs
    /\ parsed = NoNode
    /\ generic = NoNode
    /\ app = "proxy"
    /\ Idle
    /\ OutIdle
    /\ StrategiesIdle

SummaryNext == \E text \in Summaries, place \in SummaryPlaces : ParseSummary(text, place)

SpecSummary == SummaryInit /\ [][SummaryNext]_vars

(***************************************************************************)
(* Pages with stage-marker rows: up to MaxStageTables result tables of two *)
(* rows each, with a full header or none; a row is a case row, a marker    *)
(* row of one cell, or a marker row of six cells (src/proxy.py:317-342).   *)
(***************************************************************************)
MaxStageTables == 2

\* a row of six cells whose first cell holds the stage-name label
WideStageRow(sno, label) ==
    El("tr", <<El("td", <<ElClass("span", "stage-name", <<Txt(label)>>)>>),
               El("td", <<ElId("a", "caseNumber", <<Txt("WP/7/2024")>>)>>),
               El("td", PartyNodes(DefaultParty)),
               El("td", <<Txt("A KUMAR")>>),
               El("td", <<Txt("GP FOR HOME")>>),
               El("td", <<Txt(sno)>>)>>)

StageRowKinds == {"case", "stage", "widestage"}

StageRowOf(k, n) ==
    IF k = "widestage" THEN WideStageRow(SNo(n), "FOR ORDERS " \o SNo(n)) ELSE RowOf(k, n)

\* the t-th table: its header kind and the kinds of its two rows
StageBlock(t, hkind, kinds) ==
    BlockOf(hkind, t,
            TableOf("tbody", [i \in 1..2 |-> StageRowOf(kinds[i], (t - 1) * 2 + i)]))

StagePages ==
    {PageOf([t \in 1..Len(spec) |-> StageBlock(t, spec[t][1], spec[t][2])]) :
        spec \in SeqsFromTo({"none", "full"} \X [1..2 -> StageRowKinds], 1, MaxStageTables)}

StageInit ==
    /\ doc \in StagePages
    /\ parsed = NoNode
    /\ generic = NoNode
    /\ app = "proxy"
    /\ Idle
    /\ OutIdle
    /\ StrategiesIdle

SpecStage == StageInit /\ [][ParseStep]_vars

(***************************************************************************)
(* One call of _safe_find_element (src/tshc_server.py:131-151) on a page   *)
(* that stays as it is during the call.  Every locator finds no element,   *)
(* an element that is in the document but cannot be clicked, or an element *)
(* that can be clicked.  A step is one iteration of one of the two loops.  *)
(***************************************************************************)
ElementStates == {"absent", "present", "clickable"}

LocatorLists == {"adv", "date", "submit"}

\* a first loop that takes any element of the document
Succeeds_present(pass, state) == state # "absent"

\* whether the lookup of a loop gives the element: the first loop waits for
\* EC.element_to_be_clickable, the second calls driver.find_element
Succeeds(pass, state) ==
    IF pass = 1 THEN state = "clickable" ELSE state # "absent"

\* one iteration: return element, or continue
FindTry ==
    /\ lookup # NoNode
    /\ lookup.pc = "find"
    /\ LET tried == [lookup EXCEPT !.tries = Append(@, <<lookup.pass, lookup.idx>>)]
       IN  lookup' =
               IF Succeeds(lookup.pass, lookup.dom[lookup.idx])
               THEN [tried EXCEPT !.pc = "returned",
                                  !.element = Locators(lookup.which)[lookup.idx]]
               ELSE IF NextTry(tried) = NoNode
               THEN [tried EXCEPT !.pc = "returned", !.element = None]
               ELSE NextTry(tried)
    /\ UNCHANGED <<parsevars, callvars, reqvars, outvars, sessvars, selvars, twicevars, remvars>>

FindInit ==
    /\ ParseIdle
    /\ app = "proxy"
    /\ Idle
    /\ OutIdle
    /\ SessIdle
    /\ SelIdle
    /\ TwiceIdle
    /\ RemIdle
    /\ \E which \in LocatorLists :
         \E dom \in [1..Len(Locators(which)) -> ElementStates] :
            lookup = [pc |-> "find", which |-> which, dom |-> dom, pass |-> 1, idx |-> 1,
                      tries |-> <<>>, element |-> None]

SpecFind == FindInit /\ [][FindTry]_vars

(***************************************************************************)
(* The scheduled jobs of src/cron_service.py: save_daily_causelist         *)
(* (147-189) over the causelist_history table, and                         *)
(* send_daily_hearing_reminders (91-145) over tomorrow's cases, the tasks  *)
(* that assign users to them and the notifications table                   *)
(* (src/supabase_client.py:97-156).  A step of the reminder job is the     *)
(* query of tomorrow's cases or one iteration of its loop over them.       *)
(***************************************************************************)
MaxHearings == 2

MaxTasks == 2

CaseNumbers == {"WP 101/2024", "CRP 7/2023"}

Users == {"u1", "u2"}

\* the rows the causelist_history table starts with
InitialSnapshots ==
    {<<>>,
     <<[advocate_code |-> "19272", date |-> Today]>>,
     <<[advocate_code |-> "19272", date |-> "01-11-2026"]>>}

\* cases has one row per case
HearingLists ==
    {l \in SeqsUpTo(CaseNumbers, MaxHearings) :
        \A i, j \in 1..Len(l) : i # j => l[i] # l[j]}

\* the sequences that hold every element of S once
Orderings(S) ==
    {l \in [1..Cardinality(S) -> S] : \A i, j \in 1..Len(l) : i # j => l[i] # l[j]}

\* user ids taken as the task rows give them
UserIdLists_rows(rows) == {rows}

\* list(set([t['assigned_to'] for t in tasks_response.data ...]))
\* (supabase_client.py:143): every id once, in the order the set gives
UserIdLists(rows) == Orderings({rows[k] : k \in 1..Len(rows)})

\* a loop that ends at the first case that is not notified
Continue_aborts(r, entry) ==
    IF entry.sent /\ entry.assignees # <<>> /\ r.idx < Len(r.hearings)
    THEN [r EXCEPT !.idx = r.idx + 1, !.log = Append(@, entry)]
    ELSE [r EXCEPT !.pc = "done", !.log = Append(@, entry)]

\* the loop of send_daily_hearing_reminders goes on with the next case
\* (cron_service.py:109, 121-123, 140-142)
Continue(r, entry) ==
    IF r.idx < Len(r.hearings)
    THEN [r EXCEPT !.idx = r.idx + 1, !.log = Append(@, entry)]
    ELSE [r EXCEPT !.pc = "done", !.log = Append(@, entry)]

\* the rows create_notification inserts for the users of a case
\* (cron_service.py:129-136; supabase_client.py:97-116): a failed insert is
\* logged and answered with False
Inserted(assignees, case, created) ==
    SelectSeq([k \in 1..Len(assignees) |-> [user_id |-> assignees[k], case_number |-> case]],
              LAMBDA row : row.user_id \in created)

\* supabase_client.get_tomorrow_hearings() (cron_service.py:100-106;
\* supabase_client.py:118-130): a failed query gives []
RemStart(ok) ==
    /\ rem # NoNode
    /\ rem.pc = "idle"
    /\ rem' = IF ok /\ rem.hearings # <<>>
              THEN [rem EXCEPT !.pc = "case", !.idx = 1, !.fetched = ok]
              ELSE [rem EXCEPT !.pc = "done", !.fetched = ok]
    /\ UNCHANGED notes

\* one iteration of the loop (cron_service.py:109-142): the assignees are
\* fetched (a failed query gives []), the external reminders are sent
\* (sent tells whether send_hearing_reminder returned), and a notification
\* is created for every assignee (created holds those whose insert worked)
RemCase(fetched, assignees, sent, created) ==
    /\ rem # NoNode
    /\ rem.pc = "case"
    /\ LET case == rem.hearings[rem.idx]
           users == IF fetched THEN assignees ELSE <<>>
       IN  /\ assignees \in UserIdLists(rem.tasks[case])
           /\ created \subseteq {users[k] : k \in 1..Len(users)}
           /\ users = <<>> => sent
           /\ ~sent => created = {}
           /\ notes' = IF users # <<>> /\ sent
                       THEN notes \o Inserted(users, case, created)
                       ELSE notes
           /\ rem' = Continue(rem, [case |-> case, fetched |-> fetched, assignees |-> users,
                                    sent |-> sent, created |-> created])

\* what the jobs leave alone
CronRest ==
    UNCHANGED <<parsevars, callvars, reqvars, sessvars, selvars, twicevars, findvars>>

CronInit ==
    /\ ParseIdle
    /\ app = "proxy"
    /\ Idle
    /\ wire = {}
    /\ answer = NoNode
    /\ snapshots \in InitialSnapshots
    /\ SessIdle
    /\ SelIdle
    /\ TwiceIdle
    /\ FindIdle
    /\ notes = <<>>
    /\ \E hearings \in HearingLists :
         \E tasks \in [CaseNumbers -> SeqsUpTo(Users, MaxTasks)] :
            rem = [pc |-> "idle", hearings |-> hearings, tasks |-> tasks, idx |-> 0,
                   fetched |-> FALSE, log |-> <<>>]

CronNext ==
    \/ \E code_env \in ArgCodes, base \in AppUrls, o \in CallOutcomes :
          SaveDailyCauselist(code_env, base, o) /\ CronRest /\ UNCHANGED remvars
    \/ \E ok \in BOOLEAN : RemStart(ok) /\ CronRest /\ UNCHANGED outvars
    \/ \E fetched \in BOOLEAN, assignees \in SeqsUpTo(Users, MaxTasks), sent \in BOOLEAN,
          created \in SUBSET Users :
          RemCase(fetched, assignees, sent, created) /\ CronRest /\ UNCHANGED outvars

SpecCron == CronInit /\ [][CronNext]_vars

(***************************************************************************)
(* What a page holds, read off the tree itself.                            *)
(***************************************************************************)
\* the cells of a row: its own td children
OwnCells(tr) == SelectSeq(tr.kids, LAMBDA d : d.tag = "td")

\* the rows below a result table, in document order
ResultRows(soup) ==
    LET all == Descendants(soup)
    IN  SelectSeq(find_all(soup, "tr"),
            LAMBDA tr : \E i \in 1..Len(all) :
                /\ all[i].tag = "table" /\ all[i].id = "dataTable"
                /\ \E j \in 1..Len(Descendants(all[i])) : Descendants(all[i])[j] = tr)

\* a candidate case row: one with at least six cells
CandidateRow(tr) == Len(OwnCells(tr)) >= MinCols

\* a well-formed case row: at least six cells and a case number with '/'
WellFormedRow(tr) ==
    /\ CandidateRow(tr)
    /\ Contains(get_text_strip(OwnCells(tr)[2], ""), "/")

RowSNo(tr) == get_text_strip(OwnCells(tr)[1], "")

SNosOf(cases) == [k \in 1..Len(cases) |-> cases[k].s_no]

\* whether a header carries the marker phrase
HasMarker(header, marker) == header # NoNode /\ FindDivString(header, marker) # NoNode

MarkerText(header, marker) == get_text_strip(FindDivString(header, marker), "")

\* the value in force at the t-th result table: that of the last header with
\* the marker found before a table up to the t-th, None when there is none
InForce(all, tables, t, marker) ==
    LET marked == {u \in 1..t : HasMarker(find_previous(all, tables[u], "thead"), marker)}
    IN  IF marked = {} THEN None
        ELSE MarkerText(find_previous(all, tables[CHOOSE u \in marked : \A w \in marked : w <= u],
                                      "thead"), marker)

\* the result tables holding a row with this sequence number
TablesOfRow(all, tables, sno) ==
    {t \in 1..Len(tables) :
        \E k \in 1..Len(find_all(all[tables[t]], "tr")) :
            LET tr == find_all(all[tables[t]], "tr")[k]
            IN  OwnCells(tr) # <<>> /\ RowSNo(tr) = sno}

(***************************************************************************)
(* C2: every case record of either parser has a case number containing    *)
(* '/', and a page of five candidate rows of which two lack '/' gives      *)
(* exactly three records.                                                  *)
(***************************************************************************)
C2_CaseNumbersHaveSlash ==
    /\ parsed # NoNode =>
          /\ \A k \in 1..Len(parsed.cases) : Contains(parsed.cases[k].case_no, "/")
          /\ LET rows == SelectSeq(ResultRows(doc), CandidateRow)
             IN  (Len(rows) = 5 /\ Len(SelectSeq(rows, WellFormedRow)) = 3)
                    => Len(parsed.cases) = 3
    /\ generic # NoNode =>
          \A k \in 1..Len(generic.cases) : Contains(generic.cases[k].case_no, "/")

\* the part of C2 that is about the dataTable parser alone
C2_DataTableHasSlash ==
    parsed # NoNode =>
        /\ \A k \in 1..Len(parsed.cases) : Contains(parsed.cases[k].case_no, "/")
        /\ LET rows == SelectSeq(ResultRows(doc), CandidateRow)
           IN  (Len(rows) = 5 /\ Len(SelectSeq(rows, WellFormedRow)) = 3)
                  => Len(parsed.cases) = 3

(***************************************************************************)
(* C3: the dataTable parser returns one record for each well-formed case   *)
(* row of the result tables, none twice and none left out, in document     *)
(* order, and count is their number, whether or not the rows are in a      *)
(* tbody and when tables are nested.                                       *)
(***************************************************************************)
C3_OneRecordPerRowInOrder ==
    parsed # NoNode =>
        LET rows == SelectSeq(ResultRows(doc), WellFormedRow)
        IN  /\ SNosOf(parsed.cases) = [k \in 1..Len(rows) |-> RowSNo(rows[k])]
            /\ parsed.count = Len(rows)

(***************************************************************************)
(* C4: each record reports the court and the judge of the last header with *)
(* the marker found up to the record's table; a table whose header lacks   *)
(* the marker, or that has no header, leaves them as they were.            *)
(***************************************************************************)
C4_CourtJudgeSticky ==
    parsed # NoNode =>
        LET all == Descendants(doc)
            tables == DataTables(all)
        IN  \A k \in 1..Len(parsed.cases) :
                \A t \in TablesOfRow(all, tables, parsed.cases[k].s_no) :
                    /\ parsed.cases[k].court = InForce(all, tables, t, CourtMarker)
                    /\ parsed.cases[k].judge = InForce(all, tables, t, JudgeMarker)

\* three tables of which only the first has a header with the markers, the
\* second has a header without them, and all three records report the first
\* header's court and judge
C4_Witness ==
    /\ parsed # NoNode
    /\ LET all == Descendants(doc)
           tables == DataTables(all)
       IN  /\ Len(tables) = 3
           /\ HasMarker(find_previous(all, tables[1], "thead"), CourtMarker)
           /\ HasMarker(find_previous(all, tables[1], "thead"), JudgeMarker)
           /\ find_previous(all, tables[2], "thead") # NoNode
           /\ \A t \in 2..3 :
                 /\ ~HasMarker(find_previous(all, tables[t], "thead"), CourtMarker)
                 /\ ~HasMarker(find_previous(all, tables[t], "thead"), JudgeMarker)
           /\ Len(parsed.cases) = 3
           /\ \A k \in 1..3 :
                 /\ parsed.cases[k].court = "COURT NO. 1"
                 /\ parsed.cases[k].judge = "THE HONOURABLE SRI JUSTICE 1"

(***************************************************************************)
(* C5: the party cell with the lines "Ram Kumar", "Versus", "State of      *)
(* Telangana" gives petitioner "Ram Kumar" and respondent "State of        *)
(* Telangana"; a cell without a vs line gives two empty strings.           *)
(***************************************************************************)
VersusCell == <<"Ram Kumar", "Versus", "State of Telangana">>

C5_VersusSplits ==
    parsed # NoNode =>
        \A party \in PartyCells :
            doc = PartyPage(party) =>
                /\ party = VersusCell =>
                      /\ parsed.cases[1].petitioner = "Ram Kumar"
                      /\ parsed.cases[1].respondent = "State of Telangana"
                /\ (\A i \in 1..Len(party) :
                        /\ ~Contains(Lower(party[i]), "vs")
                        /\ ~Contains(Lower(party[i]), "versus")) =>
                      /\ parsed.cases[1].petitioner = ""
                      /\ parsed.cases[1].respondent = ""

\* the part of C5 that is about cells without a line containing "vs"
C5_NoVsLineGivesEmpty ==
    parsed # NoNode =>
        \A party \in PartyCells :
            (doc = PartyPage(party)
                /\ \A i \in 1..Len(party) : ~Contains(Lower(party[i]), "vs")) =>
                    /\ parsed.cases[1].petitioner = ""
                    /\ parsed.cases[1].respondent = ""

(***************************************************************************)
(* What a request has come to, read off the state.                         *)
(***************************************************************************)
\* the outcome of the latest send
LastSent == hist[Len(hist)]

\* the statuses of the responses in hist, 0 for a send that got none
SentStatuses == [i \in 1..Len(hist) |-> hist[i].status]

\* the records _parse_html finds in each body the court site sends
RecordsOfBody ==
    [b \in ResultBodies \cup {"form", "error"} |-> ParseHtml(Page(b), "", "").cases]

\* fetch_data has returned
Returned == result # NoNode

\* the exception classes of a failed transport request
TransportKinds == {"Timeout", "ConnectionError", "HTTPError"}

(***************************************************************************)
(* C1: in every result envelope of a causelist request (the parser's, the  *)
(* transport failure's, the unexpected failure's, and the one the          *)
(* /getDailyCauselist handler rebuilds) count is the number of elements    *)
(* of cases.                                                               *)
(***************************************************************************)
C1_CountIsLenCases ==
    /\ Returned =>
          /\ {"cases", "count"} \subseteq DOMAIN result
          /\ result.count = Len(result.cases)
    /\ (Returned /\ pc = "done") =>
          /\ {"cases", "count"} \subseteq DOMAIN response.body
          /\ response.body.count = Len(response.body.cases)

\* a page with three records whose summary line counts four has been parsed
\* and answered
C1_Witness ==
    /\ app = "proxy"
    /\ pc = "done"
    /\ Returned
    /\ cause = None
    /\ result.total_cases_header = 4
    /\ Len(result.cases) = 3
    /\ response.status = 200
    /\ response.body.count = 3

(***************************************************************************)
(* C6: a session call that is answered with retryable statuses and then,   *)
(* within the retry budget, with a 2xx response succeeds, and the body of  *)
(* that 2xx response is what is parsed; a call whose every attempt within  *)
(* the budget is answered with a retryable status ends fetch_data in an    *)
(* HTTP-error failure, never in a success envelope built from the error    *)
(* body.                                                                   *)
(***************************************************************************)
C6_RetryThenSuccessOrHttpError ==
    /\ (hist # <<>> /\ LastSent.status = 200) =>
          /\ cause \notin TransportKinds \cup SendErrors
          /\ \/ pc = "post" /\ newcall
             \/ pc \in {"parse", "respond", "done"} /\ page = LastSent.body
    /\ (pc \in {"respond", "done"} /\ hist # <<>> /\ LastSent.status = 200 /\ cause = None) =>
          /\ "error" \notin DOMAIN result
          /\ result.cases = RecordsOfBody[LastSent.body]
          /\ result.count = Len(RecordsOfBody[LastSent.body])
    /\ (pc = "post" /\ newcall /\ verify = FirstVerify(app)) \/ pc = "parse" =>
          LastSent.status = 200
    /\ (app = "proxy" /\ Len(hist) = 4 /\ LastSent.kind = "response" /\ LastSent.status # 200) =>
          pc \in {"respond", "done"}
    /\ (pc \in {"respond", "done"} /\ hist # <<>> /\ LastSent.kind = "response"
            /\ LastSent.status # 200) =>
          /\ cause = "HTTPError"
          /\ page = None
          /\ "error" \in DOMAIN result
          /\ result.error # ""
          /\ result.cases = <<>>
          /\ (pc = "done" /\ app = "proxy") => response.status # 200

\* two 503 responses and then a 200 response to the POST: the 200 body has
\* been parsed into its three records
C6_Witness ==
    /\ app = "proxy"
    /\ pc = "respond"
    /\ SentStatuses = <<503, 503, 200>>
    /\ page = "cases"
    /\ Returned
    /\ cause = None
    /\ Len(result.cases) = 3

\* four 503 responses in a row: an HTTP-error failure
C6_WitnessExhausted ==
    /\ app = "proxy"
    /\ pc = "respond"
    /\ SentStatuses = <<503, 503, 503, 503>>
    /\ cause = "HTTPError"
    /\ "error" \in DOMAIN result

(***************************************************************************)
(* C7: the session transport sends a request again after a response only   *)
(* if the status is 429, 500, 502, 503 or 504, and at most 3 times for     *)
(* one request; a response with any other 4xx status is never retried and  *)
(* fails the request on the first attempt.                                 *)
(***************************************************************************)
C7_RetriesOnlyForcelistBounded ==
    app = "proxy" =>
        /\ Len(hist) <= 4
        /\ \A i \in 1..(Len(hist) - 1) :
              hist[i].kind = "response" => hist[i].status \in {429, 500, 502, 503, 504}
        /\ (hist # <<>> /\ ~newcall /\ LastSent.kind = "response"
                /\ LastSent.status \in (400..499) \ {429}) =>
              /\ pc \in {"respond", "done"}
              /\ cause = "HTTPError"

\* the part of C7 that is about responses without a Retry-After header
C7_NoRetryAfterHeader ==
    app = "proxy" =>
        /\ Len(hist) <= 4
        /\ \A i \in 1..(Len(hist) - 1) :
              (hist[i].kind = "response" /\ ~hist[i].retry_after) =>
                  hist[i].status \in {429, 500, 502, 503, 504}
        /\ (hist # <<>> /\ ~newcall /\ LastSent.kind = "response" /\ ~LastSent.retry_after
                /\ LastSent.status \in (400..499) \ {429}) =>
              /\ pc \in {"respond", "done"}
              /\ cause = "HTTPError"

(***************************************************************************)
(* C8: a timeout, a network error and an HTTP error are distinguishable    *)
(* by the caller of fetch_data: the envelope returned for one of them is   *)
(* not the envelope fetch_data returns for another.                        *)
(***************************************************************************)
C8_FailureKindsDistinguishable ==
    (Returned /\ cause \in TransportKinds) =>
        \A other \in TransportKinds \ {cause} :
            \A s \in Statuses \ {200} :
                result # RequestFailure(app, other, s)

\* the part of C8 that holds: what the plain session's fetch_data returns
\* tells the kinds apart
C8_PlainSessionDistinguishable ==
    (app = "tshc_app" /\ Returned /\ cause \in TransportKinds) =>
        \A other \in TransportKinds \ {cause} :
            \A s \in Statuses \ {200} :
                result # RequestFailure(app, other, s)

(***************************************************************************)
(* C9: fetch_data never raises: whenever the GET, the POST or the parse    *)
(* step fails, it returns an envelope whose cases is the empty list,       *)
(* whose count is 0 and whose error is a non-empty string.                 *)
(***************************************************************************)
C9_FailureEnvelope ==
    /\ (cause # None) => Returned
    /\ (Returned /\ cause # None) =>
          /\ {"cases", "count", "error"} \subseteq DOMAIN result
          /\ result.cases = <<>>
          /\ result.count = 0
          /\ result.error # ""

\* the part of C9 that holds: the fetch_data of src/proxy.py
C9_ProxyFailureEnvelope ==
    app = "proxy" => C9_FailureEnvelope

(***************************************************************************)
(* C10: a request to a causelist search endpoint whose advocate code is    *)
(* empty (or, in the strict variant, not digits only) or whose supplied    *)
(* date is not in DD-MM-YYYY format is rejected with a validation error,   *)
(* and nothing is sent to the court site for it.                           *)
(***************************************************************************)
\* DD-MM-YYYY
IsDDMMYYYY(d) ==
    /\ Len(d) = 10
    /\ \A i \in 1..10 : IF i \in {3, 6} THEN CharAt(d, i) = "-" ELSE IsDigit(CharAt(d, i))

InvalidArgs ==
    \/ EffCode = ""
    \/ app = "proxy" /\ ~IsDigitStr(EffCode)
    \/ Strip(args.date) # "" /\ ~IsDDMMYYYY(Strip(args.date))

C10_InvalidRejectedWithoutCall ==
    (pc # "idle" /\ InvalidArgs) =>
        /\ pc = "done"
        /\ response.status = 400
        /\ "error" \in DOMAIN response.body
        /\ ~contacted

\* the part of C10 that holds: the handler of src/proxy.py
C10_ProxyRejectsWithoutCall ==
    app = "proxy" => C10_InvalidRejectedWithoutCall

(***************************************************************************)
(* C11: the first attempt of each transport request is made with           *)
(* certificate verification; only after that attempt has failed with a     *)
(* TLS error is the request sent without verification, and that happens    *)
(* at most once for a request: when the unverified call fails, the         *)
(* failure is surfaced.                                                    *)
(***************************************************************************)
\* a step into a state where a request is about to be sent, or has been
\* sent, without verification is the fallback after a TLS error of the
\* verified call, or stays within the one unverified call
UnverifiedOnlyAsFallback ==
    (pc' \in {"get", "post"} /\ ~verify') =>
        \/ verify /\ pc = pc' /\ newcall' /\ LastSent'.error = "SSLError"
        \/ ~verify /\ pc = pc' /\ ~newcall'

C11_VerifiedFirstFallbackOnce == [][UnverifiedOnlyAsFallback]_vars

\* the part of C11 that holds: the transport of src/proxy.py
C11_ProxyVerifiedFirst == [][app = "proxy" => UnverifiedOnlyAsFallback]_vars

\* the host of a URL: scheme://host/path
Host(url) == Split(url, "/")[3]

\* C12: a request sent with certificate verification disabled goes to
\* causelist.tshc.gov.in, as the fallback of the scrape transport; no other
\* outbound call of the system is sent unverified
C12_UnverifiedOnlyCauselistFallback ==
    \A w \in wire :
        ~w.verify =>
            /\ Host(w.url) = "causelist.tshc.gov.in"
            /\ w.fallback
            /\ w.caller \in {"getDailyCauselist", "search"}

\* C12, the part that holds: the csis endpoints only send verified requests
C12_CsisVerified ==
    \A w \in wire : w.caller \in {"getCaseDetails", "getAdvReport"} => w.verify

\* the session calls of invocation i before position k
Before(i, k) == {j \in 1..(k - 1) : net[j].inv = i}

\* the form GETs of invocation i that completed before position k
CompletedGets(i, k) ==
    {j \in Before(i, k) : net[j].method = "get" /\ CallException(net[j].outcome) = None}

\* C13: within one invocation the result POST is sent after the form GET has
\* completed, on the session of the GET, and carries the cookie the GET's
\* response set
C13_PostAfterGetSameSession ==
    \A k \in 1..Len(net) :
        net[k].method = "post" =>
            /\ CompletedGets(net[k].inv, k) # {}
            /\ \A j \in CompletedGets(net[k].inv, k) :
                  /\ net[j].session = net[k].session
                  /\ net[j].set # 0 => net[j].set \in net[k].cookies

\* C13 is exercised: a POST was sent after a GET whose response set a cookie
C13_Witness ==
    \E k \in 1..Len(net) :
        /\ net[k].method = "post"
        /\ \E j \in CompletedGets(net[k].inv, k) : net[j].set # 0

\* C15: a cookie sent by an invocation was set by a response to a request of
\* that invocation, and no two invocations use one session
C15_NoSharedSessionState ==
    /\ \A k \in 1..Len(net) : \A c \in net[k].cookies : net[c].inv = net[k].inv
    /\ \A i, j \in Invocations :
          (i # j /\ sess[i].pc # "idle" /\ sess[j].pc # "idle") =>
              sess[i].session # sess[j].session

\* C15 is exercised: the GET of one invocation lies between the GET and the
\* POST of the other, both GETs set a cookie, and the POST carries one
C15_Witness ==
    \E k \in 1..Len(net) :
        /\ net[k].method = "post"
        /\ net[k].cookies # {}
        /\ \E g \in CompletedGets(net[k].inv, k) :
              \E m \in (g + 1)..(k - 1) :
                  /\ net[m].inv # net[k].inv
                  /\ net[m].method = "get"
                  /\ net[m].set # 0

\* the browsers invocation i started
BrowsersOf(i) == {b \in 1..Len(browsers) : browsers[b].owner = i}

\* C16: a browser is referred to by the invocation that started it and by no
\* other, and when fetch_data has returned the browsers it started have quit
C16_BrowserQuitOnEveryExit ==
    \A i \in Invocations :
        /\ sel[i].driver # 0 => BrowsersOf(i) = {sel[i].driver}
        /\ sel[i].driver = 0 => BrowsersOf(i) = {}
        /\ sel[i].pc = "returned" => \A b \in BrowsersOf(i) : browsers[b].state = "quit"

\* C16 is exercised: one invocation returned through the except clause and
\* the other with a parsed page, each after starting a browser
C16_Witness ==
    \E i, j \in Invocations :
        /\ sel[i].pc = "returned" /\ sel[i].driver # 0
        /\ sel[i].result = ScrapingFailed("no such element")
        /\ sel[j].pc = "returned" /\ sel[j].driver # 0
        /\ sel[j].result = GenericOfBody["cases"]

\* C16 is exercised on the other exit paths too
C16_WitnessEarlyReturns ==
    \E i, j \in Invocations :
        /\ sel[i].pc = "returned" /\ sel[i].result = MissingField
        /\ sel[j].pc = "returned" /\ sel[j].result = NoRecords

\* C14: every invocation of fetch_data, of the session strategy and of the
\* browser strategy, returns: the retries of the adapter, the fallback and
\* the locator loops all come to an end
C14_FetchDataTerminates ==
    /\ (pc \in {"get", "post", "parse"}) ~> (result # NoNode)
    /\ (sel[1].pc \notin {"idle", "returned"}) ~> (sel[1].pc = "returned")

\* C14 is exercised: the browser strategy returned after both loops of
\* _safe_find_element ran through every locator of the date and the button
C14_Witness ==
    /\ sel[1].pc = "returned"
    /\ sel[1].adv_input /\ ~sel[1].date_input /\ ~sel[1].submit_btn
    /\ sel[1].pass = 2 /\ sel[1].idx = Len(SubmitLocators)

\* C14 is exercised: the session strategy returned after the verified POST
\* and its fallback both used up the retries of the adapter
C14_WitnessRetries ==
    /\ result # NoNode
    /\ ~verify /\ Len(hist) = RetryTotal("proxy") + 1
    /\ app = "proxy" /\ cause = "HTTPError"

\* the status mapping of a response that has been built
StatusMapped ==
    /\ result = NoNode => response.status \in 400..499
    /\ (result # NoNode /\ cause # None) => response.status \in 500..599
    /\ (result # NoNode /\ cause = None /\ response # HandlerFailure) =>
          /\ response.status = 200
          /\ result.count = 0 => response.body.cases = <<>>

\* C17: a validation failure is answered with a 4xx status, a transport or
\* parse failure with a 5xx status, and a successful scrape with 200, with
\* an empty cases list when count = 0
C17_StatusMapping == pc = "done" => StatusMapped

\* C17, the part that holds: get_daily_causelist of src/proxy.py
C17_ProxyStatusMapping == (pc = "done" /\ app = "proxy") => StatusMapped

\* a body that has an error field has a cases field that is a list
ErrorHasCases(body) ==
    "error" \in DOMAIN body =>
        /\ "cases" \in DOMAIN body
        /\ body.cases \in Seq({body.cases[k] : k \in DOMAIN body.cases})

\* C18: every response body of a causelist endpoint that carries an error
\* field also carries a cases field that is a list, on every error path
C18_ErrorBodyHasCases == response # NoNode => ErrorHasCases(response.body)

\* C18, the part that holds: the envelopes fetch_data returns, of the
\* session strategies and of the browser strategy
C18_FetchDataErrorHasCases == result # NoNode => ErrorHasCases(result)

C18_BrowserErrorHasCases ==
    \A i \in Invocations : sel[i].result # NoNode => ErrorHasCases(sel[i].result)

EnvelopeKeys == {"cases", "count", "advocate_code", "date", "timestamp", "method"}

\* an envelope with every key, for the request's code and date
FullEnvelope(body) ==
    /\ EnvelopeKeys \subseteq DOMAIN body
    /\ body.advocate_code = EffCode
    /\ body.date = EffDate
    /\ body.method = "requests-session"

\* C19: the envelope returned for a request that passed validation has the
\* keys cases, count, advocate_code, date, timestamp and method, with the
\* request's code and date and the tag of the strategy, on the success path
\* and on the failure path alike
C19_EnvelopeComplete ==
    (app = "proxy" /\ result # NoNode /\ response # NoNode) => FullEnvelope(response.body)

\* C19, the part that holds: the success path of get_daily_causelist
C19_SuccessEnvelopeComplete ==
    (app = "proxy" /\ response # NoNode /\ response.status = 200) =>
        FullEnvelope(response.body)

\* C20: two calls of _parse_html on the same document, with the same code
\* and date, return the same mapping, whenever the calls happen
C20_ParseTwiceIdentical ==
    \A j, k \in 1..Len(outputs) :
        outputs[j].app = outputs[k].app => outputs[j].out = outputs[k].out

\* C20, the part that holds: the parser of src/proxy.py, at any two times
C20_ProxyParseTwiceIdentical ==
    \A j, k \in 1..Len(outputs) :
        (outputs[j].app = "proxy" /\ outputs[k].app = "proxy") =>
            outputs[j].out = outputs[k].out

\* C20, the part that holds for both parsers: the records and their order
C20_SameRecordsInOrder ==
    \A j, k \in 1..Len(outputs) : outputs[j].out.cases = outputs[k].out.cases

\* C21: the summary figure does not gate the output: served with any two
\* summaries, or with none, a page gives the same cases and the same count,
\* the count is the number of cases, and a page without the summary gives
\* total_cases_header = 0
C21_SummaryNeverGates ==
    \A j, k \in 1..Len(outputs) :
        /\ outputs[j].out.cases = outputs[k].out.cases
        /\ outputs[j].out.count = outputs[k].out.count
        /\ outputs[j].out.count = Len(outputs[j].out.cases)
        /\ outputs[j].summary = None => outputs[j].out.total_cases_header = 0

\* C21 is exercised: one page was parsed under two summaries whose figures
\* differ from each other and from the number of records, which is not 0
C21_Witness ==
    \E j, k \in 1..Len(outputs) :
        /\ outputs[j].out.total_cases_header = 7
        /\ outputs[k].out.total_cases_header = 1
        /\ Len(outputs[j].out.cases) = 2

\* a stage-setting element: the list-type label of a header, or the
\* stage-name label of a marker row
SetsStage(d) ==
    \/ d.tag = "div" /\ Contains(d.style, StageStyle)
    \/ d.tag = "span" /\ d.cls = "stage-name"

\* the positions, in document order, of the rows with this sequence number
RowPositions(all, sno) ==
    {p \in 1..Len(all) :
        all[p].tag = "tr" /\ OwnCells(all[p]) # <<>> /\ RowSNo(all[p]) = sno}

\* the text of the last stage-setting element before position p, or None
StageBefore(all, p) ==
    LET set == {q \in 1..(p - 1) : SetsStage(all[q])}
    IN  IF set = {} THEN None
        ELSE get_text_strip(all[CHOOSE q \in set : \A r \in set : r <= q], "")

\* C22: the stage of a record is the text of the last stage-setting element,
\* header label or marker row, before the record's row in document order,
\* also when the row's table has no header of its own
C22_StageOfLastSetter ==
    parsed # NoNode =>
        LET all == Descendants(doc)
        IN  \A k \in 1..Len(parsed.cases) :
                \A p \in RowPositions(all, parsed.cases[k].s_no) :
                    parsed.cases[k].stage = StageBefore(all, p)

\* C22, the part that holds: pages of one result table
C22_StageOfLastSetterOneTable ==
    (parsed # NoNode /\ Len(DataTables(Descendants(doc))) = 1) =>
        LET all == Descendants(doc)
        IN  \A k \in 1..Len(parsed.cases) :
                \A p \in RowPositions(all, parsed.cases[k].s_no) :
                    parsed.cases[k].stage = StageBefore(all, p)

\* a stage-marker row: one that holds the stage-name label
MarkerRow(tr) ==
    \E j \in 1..Len(Descendants(tr)) :
        Descendants(tr)[j].tag = "span" /\ Descendants(tr)[j].cls = "stage-name"

\* the label of the marker row at position m
MarkerLabel(all, m) ==
    get_text_strip(FirstOrNone(SelectSeq(Descendants(all[m]),
                       LAMBDA d : d.tag = "span" /\ d.cls = "stage-name")), "")

\* the records are those of the well-formed rows that are no marker rows
MarkersGiveNoRecord ==
    LET rows == SelectSeq(ResultRows(doc), LAMBDA tr : WellFormedRow(tr) /\ ~MarkerRow(tr))
    IN  SNosOf(parsed.cases) = [k \in 1..Len(rows) |-> RowSNo(rows[k])]

\* C23: a stage-marker row gives no record, whatever the number of its
\* cells, and every case row after it, up to the next stage marker or
\* header, carries the marker's label as its stage
C23_MarkerSetsStageNoRecord ==
    parsed # NoNode =>
        LET all == Descendants(doc)
        IN  /\ MarkersGiveNoRecord
            /\ \A m \in 1..Len(all) :
                  (all[m].tag = "tr" /\ MarkerRow(all[m])) =>
                      \A k \in 1..Len(parsed.cases) :
                          \A p \in RowPositions(all, parsed.cases[k].s_no) :
                              (p > m /\ StageBefore(all, p) = MarkerLabel(all, m)) =>
                                  parsed.cases[k].stage = MarkerLabel(all, m)

\* C23, the part that holds: no record for a marker row, and the marker's
\* label on the case rows after it in its own table
C23_MarkerInOwnTable ==
    parsed # NoNode =>
        LET all == Descendants(doc)
        IN  /\ MarkersGiveNoRecord
            /\ \A t \in 1..Len(all) :
                  (all[t].tag = "table" /\ all[t].id = "dataTable") =>
                      LET rows == find_all(all[t], "tr")
                      IN  \A i, j \in 1..Len(rows) :
                              (/\ i < j
                               /\ MarkerRow(rows[i])
                               /\ \A h \in (i + 1)..j : ~MarkerRow(rows[h])) =>
                                  \A k \in 1..Len(parsed.cases) :
                                      parsed.cases[k].s_no = RowSNo(rows[j]) =>
                                          parsed.cases[k].stage =
                                              get_text_strip(FirstOrNone(SelectSeq(
                                                  Descendants(rows[i]),
                                                  LAMBDA d : d.tag = "span"
                                                             /\ d.cls = "stage-name")), "")

\* whether a line holds the token 'vs': a word that is vs or vs., in any case
HasVsToken(line) ==
    \E w \in {Split(Lower(line), " ")[k] : k \in 1..Len(Split(Lower(line), " "))} :
        w \in {"vs", "vs."}

\* the non-empty trimmed lines of a party cell
TrimmedLines(party) == SelectSeq(MapStrip(party), NonEmptyStr)

\* the split the token gives: <<petitioner, respondent>>
TokenSplit(lines) ==
    IF \E i \in 1..Len(lines) : HasVsToken(lines[i])
    THEN LET i == CHOOSE i \in 1..Len(lines) :
                      HasVsToken(lines[i]) /\ \A j \in 1..(i - 1) : ~HasVsToken(lines[j])
         IN  <<Join(" ", SubSeq(lines, 1, i - 1)), Join(" ", SubSeq(lines, i + 1, Len(lines)))>>
    ELSE <<"", "">>

\* C24: a party cell is split at its first line that holds the token 'vs';
\* a line with the letters vs inside a longer word is no split line; without
\* a token line both fields are empty
C24_SplitAtVsToken ==
    parsed # NoNode =>
        \A party \in PartyCells :
            doc = PartyPage(party) =>
                /\ parsed.cases[1].petitioner = TokenSplit(TrimmedLines(party))[1]
                /\ parsed.cases[1].respondent = TokenSplit(TrimmedLines(party))[2]

\* C24, the part that holds: cells in which only token lines hold the
\* letters vs
C24_SplitWhenOnlyTokens ==
    parsed # NoNode =>
        \A party \in PartyCells :
            (doc = PartyPage(party)
                /\ \A i \in 1..Len(party) :
                      Contains(Lower(party[i]), "vs") => HasVsToken(party[i])) =>
                    /\ parsed.cases[1].petitioner = TokenSplit(TrimmedLines(party))[1]
                    /\ parsed.cases[1].respondent = TokenSplit(TrimmedLines(party))[2]

\* the positions of the locators of the call whose element is in state st
LocatorsIn(states) ==
    {k \in 1..Len(lookup.dom) : lookup.dom[k] \in states}

Least(S) == CHOOSE k \in S : \A j \in S : k <= j

\* the tries of a loop up to the locator at position k
TriesUpTo(pass, k) == [j \in 1..k |-> <<pass, j>>]

\* C25 (as stated): _safe_find_element returns the element of the earliest
\* locator in list order that locates an element of the page, and None only
\* when no locator locates one.
C25_EarliestMatchingLocator ==
    (lookup # NoNode /\ lookup.pc = "returned")
        => IF LocatorsIn({"present", "clickable"}) = {}
           THEN lookup.element = None
           ELSE lookup.element
                    = Locators(lookup.which)[Least(LocatorsIn({"present", "clickable"}))]

\* C25 (amended): the locators are tried in list order in two loops, the
\* first waiting for a clickable element and the second taking any element
\* of the document, and the call ends at the first success: it returns the
\* element of the earliest locator that is clickable, or, when none is, of
\* the earliest locator that is in the document, tries nothing after the
\* success, and returns None only when every try of both loops failed.
C25_TwoLoopsFirstSuccess ==
    (lookup # NoNode /\ lookup.pc = "returned")
        => LET n == Len(lookup.dom)
               click == LocatorsIn({"clickable"})
               there == LocatorsIn({"present", "clickable"})
           IN  IF click # {}
               THEN /\ lookup.element = Locators(lookup.which)[Least(click)]
                    /\ lookup.tries = TriesUpTo(1, Least(click))
               ELSE IF there # {}
               THEN /\ lookup.element = Locators(lookup.which)[Least(there)]
                    /\ lookup.tries = TriesUpTo(1, n) \o TriesUpTo(2, Least(there))
               ELSE /\ lookup.element = None
                    /\ lookup.tries = TriesUpTo(1, n) \o TriesUpTo(2, n)

\* a call returned the element of a later locator, an earlier one being in
\* the document without being clickable
C25_Witness ==
    /\ lookup # NoNode
    /\ lookup.pc = "returned"
    /\ lookup.element # None
    /\ LocatorsIn({"clickable"}) # {}
    /\ Least(LocatorsIn({"present", "clickable"})) < Least(LocatorsIn({"clickable"}))

\* a call returned an element from its second loop
C25_WitnessSecondLoop ==
    /\ lookup # NoNode
    /\ lookup.pc = "returned"
    /\ lookup.element # None
    /\ lookup.tries[Len(lookup.tries)][1] = 2

\* a step of the scrape transport of src/proxy.py after which verification
\* is disabled
TurnsVerificationOff == pc' \in {"get", "post"} /\ verify /\ ~verify'

\* C26: in src/proxy.py verification is disabled by nothing but a
\* certificate error of the verified attempt (after an HTTP error status, a
\* timeout or a connection failure of a verified attempt the invocation sends
\* nothing more), and the fallback is not retained: the POST that follows a
\* GET, and the GET of the next request, start verified whatever the GET
\* before them did.
C26_FallbackNotRetained ==
    [][app = "proxy" =>
          /\ TurnsVerificationOff =>
                (LastSent'.kind = "error" /\ LastSent'.error = "SSLError")
          /\ (pc \in {"get", "post"} /\ verify /\ cause' \in TransportKinds) =>
                (pc' = "respond" /\ verify')
          /\ (pc = "get" /\ pc' = "post") => (verify' /\ newcall')
          /\ (pc = "idle" /\ pc' = "get") => (verify' /\ newcall')]_vars

\* the GET of an invocation of src/proxy.py has fallen back: its unverified
\* call is about to be sent
C26_Witness ==
    /\ app = "proxy"
    /\ pc = "get"
    /\ ~verify
    /\ newcall
    /\ LastSent.kind = "error"
    /\ LastSent.error = "SSLError"

\* a verified attempt of src/proxy.py ended with an HTTP error status, a
\* timeout or a connection failure, and the invocation has stopped sending
C26_WitnessOtherFailure ==
    /\ app = "proxy"
    /\ pc = "respond"
    /\ verify
    /\ cause \in TransportKinds

\* the session call at position k of net is a form GET that failed for good:
\* it ended in an error that the fallback does not answer, or in a response
\* whose status is not 2xx
FailedGet(k) ==
    /\ net[k].method = "get"
    /\ IF net[k].outcome.kind = "error"
       THEN ~(net[k].verify /\ net[k].outcome.error = "SSLError")
       ELSE net[k].outcome.status \notin 200..299

C27_GetFailureGoesToRespond ==
    [][pc = "get" =>
          \/ pc' = "get"
          \/ /\ pc' = "post"
             /\ LastSent'.kind = "response"
             /\ LastSent'.status \in 200..299
          \/ /\ pc' = "respond"
             /\ LastSent'.kind = "response" => LastSent'.status \notin 200..299
             /\ page' = None
             /\ "error" \in DOMAIN result'
             /\ result'.cases = <<>>]_vars

\* the rows of causelist_history for an advocate code and a date
SnapshotsOf(table, code, date) ==
    {k \in 1..Len(table) : table[k] = [advocate_code |-> code, date |-> date]}

\* C28: a run of save_daily_causelist with an advocate code leaves the
\* table alone and fetches nothing when today's snapshot exists, adds
\* exactly one snapshot when none exists and the application answers the
\* fetch with a 2xx status, and adds nothing when the fetch fails
C28_OneSnapshotPerDay ==
    [][\A code_env \in ArgCodes, base \in AppUrls, o \in CallOutcomes :
          (SaveDailyCauselist(code_env, base, o) /\ Strip(code_env) # "") =>
              IF SnapshotsOf(snapshots, Strip(code_env), Today) # {}
              THEN snapshots' = snapshots /\ wire' = wire
              ELSE IF o.kind = "response" /\ o.status \in 200..299
              THEN snapshots' = Append(snapshots, [advocate_code |-> Strip(code_env),
                                                   date |-> Today])
              ELSE snapshots' = snapshots]_vars

\* the parts of C28 that hold: the job never stores a second snapshot for
\* an advocate code and a date, and stores nothing without having fetched
C28_NeverASecondSnapshot ==
    [][/\ \A k \in 1..Len(snapshots') :
             Cardinality(SnapshotsOf(snapshots', snapshots'[k].advocate_code,
                                     snapshots'[k].date)) = 1
       /\ snapshots' # snapshots => wire' # wire]_vars

\* the users the tasks of a case assign it to
AssigneesOf(case) == {rem.tasks[case][k] : k \in 1..Len(rem.tasks[case])}

\* the notifications a user has for a case
NotesFor(user, case) ==
    {k \in 1..Len(notes) : notes[k] = [user_id |-> user, case_number |-> case]}

\* nothing failed while the case of a log entry was processed
Unfailed(entry) ==
    /\ entry.fetched
    /\ entry.sent
    /\ entry.created = {entry.assignees[k] : k \in 1..Len(entry.assignees)}

\* C29: whatever fails for a case, the job goes on to the cases after it,
\* so that every case of tomorrow's list has been gone through when the job
\* ends; a case that was processed without failure has given each of its
\* assignees exactly one notification, and a case without assignees none
C29_FailureSkipsOnlyItsCase ==
    (rem # NoNode) =>
        /\ (rem.pc = "done" /\ rem.fetched) =>
              [k \in 1..Len(rem.log) |-> rem.log[k].case] = rem.hearings
        /\ rem.pc = "case" =>
              [k \in 1..Len(rem.log) |-> rem.log[k].case]
                  = SubSeq(rem.hearings, 1, rem.idx - 1)
        /\ \A k \in 1..Len(rem.log) :
              LET case == rem.log[k].case
              IN  /\ Unfailed(rem.log[k]) =>
                        \A u \in AssigneesOf(case) : Cardinality(NotesFor(u, case)) = 1
                  /\ AssigneesOf(case) = {} =>
                        \A u \in Users : NotesFor(u, case) = {}

\* C29 is exercised: the first case failed at sending, and the second, which
\* two tasks assign to one user, gave that user its one notification
C29_Witness ==
    /\ rem # NoNode
    /\ rem.pc = "done"
    /\ Len(rem.log) = 2
    /\ ~rem.log[1].sent
    /\ Unfailed(rem.log[2])
    /\ rem.tasks[rem.log[2].case] = <<"u1", "u1">>
    /\ Cardinality(NotesFor("u1", rem.log[2].case)) = 1

\* C29 is exercised on a case without assignees that is followed by a case
\* with two
C29_WitnessNoAssignees ==
    /\ rem # NoNode
    /\ rem.pc = "done"
    /\ Len(rem.log) = 2
    /\ AssigneesOf(rem.log[1].case) = {}
    /\ Unfailed(rem.log[2])
    /\ Len(rem.log[2].assignees) = 2
    /\ Len(notes) = 2

\* how often invocation i has submitted the form
Submits(i) ==
    Cardinality({k \in 1..Len(sel[i].inputs) : sel[i].inputs[k] \in {"click", "submit"}})

\* C30: the browser strategy gives the page no input when the advocate-code
\* field is not found and returns the error envelope with no cases; without
\* a date field it goes on, leaving the date out; the form is submitted at
\* most once, after the advocate code has been filled in, and exactly once
\* when the result page is read: by a click when a submit button was found
\* and by submitting the advocate field otherwise
C30_NoSubmitWithoutAdvocateField ==
    \A i \in Invocations :
        LET me == sel[i]
        IN  /\ ~me.adv_input => me.inputs = <<>>
            /\ me.result = MissingField =>
                  (~me.adv_input /\ me.inputs = <<>> /\ me.result.cases = <<>>)
            /\ (me.inputs # <<>>) => (me.adv_input /\ me.inputs[1] = "fill adv")
            /\ (\E k \in 1..Len(me.inputs) : me.inputs[k] = "fill date") => me.date_input
            /\ Submits(i) <= 1
            /\ (me.pc = "body" \/ (me.result # NoNode /\ "error" \notin DOMAIN me.result)) =>
                  me.inputs = <<"fill adv">>
                                  \o (IF me.date_input THEN <<"fill date">> ELSE <<>>)
                                  \o <<IF me.submit_btn THEN "click" ELSE "submit">>

\* C30 is exercised: one invocation returned the error envelope of the
\* missing advocate field, and the other, finding neither a date field nor
\* a submit button, submitted the advocate field and returned the cases
C30_Witness ==
    \E i, j \in Invocations :
        /\ sel[i].pc = "returned"
        /\ sel[i].result = MissingField
        /\ sel[j].pc = "returned"
        /\ sel[j].result = GenericOfBody["cases"]
        /\ ~sel[j].date_input
        /\ ~sel[j].submit_btn
        /\ sel[j].inputs = <<"fill adv", "submit">>

\* C30 is exercised with a submit button and a date field
C30_WitnessClick ==
    \E i \in Invocations :
        /\ sel[i].pc = "returned"
        /\ sel[i].result = NoRecords
        /\ sel[i].inputs = <<"fill adv", "fill date", "click">>

====
